---- MODULE Spec2Model ----
(***************************************************************************)
(* Model of the two ns-3 carbon-telemetry scenarios:                       *)
(*   scenarios/iot-connectivity.cc  (flat:  sensors -> gateway)            *)
(*   scenarios/iot-hierarchical.cc  (hier:  sensors -> local AP -> gateway)*)
(*                                                                         *)
(* Simulated time is counted in ticks of 0.1 s.  CO2 values (C++ double)   *)
(* are fixed-point integers counted in units of 1/Scale ppm.  A payload is *)
(* the sequence of its characters, each a one-character string.            *)
(*                                                                         *)
(* The ns-3 simulator runs events in non-decreasing time order; the order  *)
(* of events that carry the same time stamp is left open here.  A packet   *)
(* handed to a socket with success is in flight until it is delivered; it  *)
(* may stay in flight for ever (best effort, at most once).                *)
(***************************************************************************)
EXTENDS Integers, Sequences, FiniteSets, Bags, TLC

\* ------------------------------------------------------------------ bounds
NZones == 1
NSensorsFlat == 2
SimTime == 61
MaxForeign == 1
MaxReadings == 4
NZonesWide == 2

\* ------------------------------------------------------- program constants
SensorsPerZone == 2
Interval == 50
TickMicros == 100000
Scale == 10000
CO2Min == 300 * Scale
CO2Max == 3000 * Scale
VarMax == 50 * Scale
NPOS == -1
IntMaxDigits == <<2, 1, 4, 7, 4, 8, 3, 6, 4, 7>>

Min2(a, b) == IF a < b THEN a ELSE b
Max2(a, b) == IF a > b THEN a ELSE b

\* ------------------------------------------------------------------- codec
TagSENSOR == <<"S", "E", "N", "S", "O", "R", ":">>
TagCOMPANY == <<"C", "O", "M", "P", "A", "N", "Y", ":">>
TagZONE == <<"Z", "O", "N", "E", ":">>
TagCO2 == <<"C", "O", "2", ":">>
TagTIME == <<"T", "I", "M", "E", ":">>
Comma == <<",">>

DigitChars == <<"0", "1", "2", "3", "4", "5", "6", "7", "8", "9">>
IsDigit(c) == c \in {DigitChars[i] : i \in 1..10}
DigitVal(c) == (CHOOSE i \in 1..10 : DigitChars[i] = c) - 1

\* operator<< (unsigned): decimal digits, no padding
RECURSIVE UIntToStr(_)
UIntToStr(n) ==
  IF n < 10 THEN <<DigitChars[n + 1]>>
  ELSE UIntToStr(n \div 10) \o <<DigitChars[(n % 10) + 1]>>

RECURSIVE NumDigits(_)
NumDigits(n) == IF n < 10 THEN 1 ELSE 1 + NumDigits(n \div 10)

RECURSIVE Pow10(_)
Pow10(k) == IF k = 0 THEN 1 ELSE 10 * Pow10(k - 1)

RECURSIVE StripZeros(_)
StripZeros(s) ==
  IF s # <<>> /\ s[Len(s)] = "0" THEN StripZeros(SubSeq(s, 1, Len(s) - 1)) ELSE s

\* the 4 fractional digits of f (0 <= f < Scale), zero padded on the left
FracDigits(f) ==
  <<DigitChars[(f \div 1000) + 1], DigitChars[((f \div 100) % 10) + 1],
    DigitChars[((f \div 10) % 10) + 1], DigitChars[(f % 10) + 1]>>

\* operator<< (double) with the default stream format: 6 significant digits,
\* trailing zeros and a trailing point removed.  Defined for 1 <= v/Scale < 10^6
\* (every clamped CO2 value); the dropped digits round half up.
DoubleToStr(v) ==
  LET d == NumDigits(v \div Scale)
      k == Min2(6 - d, 4)
      q == Pow10(4 - k)
      r == ((v + (q \div 2)) \div q) * q
      frac == StripZeros(FracDigits(r % Scale))
  IN UIntToStr(r \div Scale) \o (IF frac = <<>> THEN <<>> ELSE <<".">> \o frac)

\* the payloads as the texts of their fields
PayloadFlat(sensorText, companyText, co2Text, timeText) ==
  TagSENSOR \o sensorText \o Comma \o TagCOMPANY \o companyText
    \o Comma \o TagCO2 \o co2Text \o Comma \o TagTIME \o timeText

PayloadHier(sensorText, zoneText, co2Text) ==
  TagSENSOR \o sensorText \o Comma \o TagZONE \o zoneText \o Comma \o TagCO2 \o co2Text

\* flat wire format
EncodeFlat(sensorId, companyId, co2Value, timestamp) ==
  PayloadFlat(UIntToStr(sensorId), UIntToStr(companyId), DoubleToStr(co2Value),
              UIntToStr(timestamp))

\* hierarchical wire format
EncodeHier(sensorId, zoneId, co2Value) ==
  PayloadHier(UIntToStr(sensorId), UIntToStr(zoneId), DoubleToStr(co2Value))

\* std::string::find: 0-based position of the first occurrence, NPOS if none
Find(data, pat) ==
  LET hits == {i \in 0..(Len(data) - Len(pat)) : SubSeq(data, i + 1, i + Len(pat)) = pat}
  IN IF hits = {} THEN NPOS ELSE CHOOSE i \in hits : \A j \in hits : i <= j

\* std::string::substr(pos, count) for pos <= size.  count is a size_t: a
\* negative difference wraps to a huge count, which reaches the end of the string.
Substr(data, pos, count) ==
  LET avail == Len(data) - pos
      n == IF count < 0 THEN avail ELSE Min2(count, avail)
  IN SubSeq(data, pos + 1, pos + n)

\* std::string::substr(pos): to the end
SubstrFrom(data, pos) == SubSeq(data, pos + 1, Len(data))

RECURSIVE LeadingDigits(_)
LeadingDigits(s) ==
  IF s # <<>> /\ IsDigit(s[1]) THEN <<s[1]>> \o LeadingDigits(Tail(s)) ELSE <<>>

RECURSIVE SkipSpaces(_)
SkipSpaces(s) == IF s # <<>> /\ s[1] = " " THEN SkipSpaces(Tail(s)) ELSE s

RECURSIVE SkipZeros(_)
SkipZeros(s) == IF Len(s) > 1 /\ s[1] = "0" THEN SkipZeros(Tail(s)) ELSE s

RECURSIVE DigitsVal(_)
DigitsVal(s) ==
  IF s = <<>> THEN 0 ELSE 10 * DigitsVal(SubSeq(s, 1, Len(s) - 1)) + DigitVal(s[Len(s)])

\* is the digit string a (no leading zeros) above 2147483647 ?
RECURSIVE DigitsAbove(_, _)
DigitsAbove(a, b) ==
  IF a = <<>> THEN FALSE
  ELSE IF DigitVal(a[1]) # b[1] THEN DigitVal(a[1]) > b[1]
  ELSE DigitsAbove(Tail(a), Tail(b))

OutOfIntRange(ds) ==
  \/ Len(ds) > 10
  \/ Len(ds) = 10 /\ DigitsAbove(ds, IntMaxDigits)

\* sign and digits at the head of a numeric field
SignOf(s) == IF s # <<>> /\ s[1] = "-" THEN -1 ELSE 1
Unsigned(s) == IF s # <<>> /\ s[1] \in {"-", "+"} THEN Tail(s) ELSE s

\* std::stoi / std::stoull: skip blanks, optional sign, then digits up to the
\* first other character.  No digit: invalid_argument; too large: out_of_range.
\* The result is stored in an unsigned variable; a negative result -n stands
\* for the wrapped value 2^32 - n (2^64 - n for stoull).
Stoi(s) ==
  LET body == Unsigned(SkipSpaces(s))
      ds == SkipZeros(LeadingDigits(body))
  IN IF ds = <<>> \/ OutOfIntRange(ds) THEN [ok |-> FALSE, val |-> 0]
     ELSE [ok |-> TRUE, val |-> SignOf(SkipSpaces(s)) * DigitsVal(ds)]

\* std::stoull: as stoi, with the range of a 64-bit unsigned (20 digits)
Stoull(s) ==
  LET body == Unsigned(SkipSpaces(s))
      ds == SkipZeros(LeadingDigits(body))
  IN IF ds = <<>> \/ Len(ds) > 20 THEN [ok |-> FALSE, val |-> 0]
     ELSE [ok |-> TRUE, val |-> SignOf(SkipSpaces(s)) * DigitsVal(ds)]

\* std::stod restricted to [sign] digits [. digits]: the value counted in
\* 1/Scale; fractional digits after the fourth are dropped.
Stod(s) ==
  LET body == Unsigned(SkipSpaces(s))
      ip == LeadingDigits(body)
      rest == SubSeq(body, Len(ip) + 1, Len(body))
      fp == IF rest # <<>> /\ rest[1] = "." THEN LeadingDigits(Tail(rest)) ELSE <<>>
      fp4 == SubSeq(fp \o <<"0", "0", "0", "0">>, 1, 4)
      ipn == SkipZeros(ip)
  IN IF ip = <<>> /\ fp = <<>> THEN [ok |-> FALSE, val |-> 0]
     ELSE [ok |-> TRUE,
           val |-> SignOf(SkipSpaces(s)) * (DigitsVal(ipn) * Scale + DigitsVal(fp4))]

\* faulty variant: the position of the last tag is not tested
AllTagsFound_lastUnchecked(positions) ==
  \A k \in 1..(Len(positions) - 1) : positions[k] # NPOS

\* faulty variant: || in place of &&
AllTagsFound_any(positions) == \E k \in 1..Len(positions) : positions[k] # NPOS

\* sensorPos != npos && ... : every find succeeded
AllTagsFound(positions) == \A k \in 1..Len(positions) : positions[k] # NPOS

\* Outcome of the gateway's parse of a payload:
\*   "ok"        all tags found and all fields parsed
\*   "malformed" a required tag is absent (the else branch / no branch)
\*   "throw"     a std:: conversion threw; nothing catches it
ParseFlat(data) ==
  LET sensorPos == Find(data, TagSENSOR)
      companyPos == Find(data, TagCOMPANY)
      co2Pos == Find(data, TagCO2)
      timePos == Find(data, TagTIME)
  IN IF AllTagsFound(<<sensorPos, companyPos, co2Pos, timePos>>)
     THEN LET sid == Stoi(Substr(data, sensorPos + 7, companyPos - sensorPos - 8))
              cid == Stoi(Substr(data, companyPos + 8, co2Pos - companyPos - 9))
              co2 == Stod(Substr(data, co2Pos + 4, timePos - co2Pos - 5))
              ts == Stoull(SubstrFrom(data, timePos + 5))
          IN IF sid.ok /\ cid.ok /\ co2.ok /\ ts.ok
             THEN [kind |-> "ok", sensorId |-> sid.val, groupId |-> cid.val,
                   co2Value |-> co2.val, timestamp |-> ts.val]
             ELSE [kind |-> "throw", sensorId |-> 0, groupId |-> 0,
                   co2Value |-> 0, timestamp |-> 0]
     ELSE [kind |-> "malformed", sensorId |-> 0, groupId |-> 0,
           co2Value |-> 0, timestamp |-> 0]

ParseHier(data) ==
  LET sensorPos == Find(data, TagSENSOR)
      zonePos == Find(data, TagZONE)
      co2Pos == Find(data, TagCO2)
  IN IF AllTagsFound(<<sensorPos, zonePos, co2Pos>>)
     THEN LET sid == Stoi(Substr(data, sensorPos + 7, zonePos - sensorPos - 8))
              zid == Stoi(Substr(data, zonePos + 5, co2Pos - zonePos - 6))
              co2 == Stod(SubstrFrom(data, co2Pos + 4))
          IN IF sid.ok /\ zid.ok /\ co2.ok
             THEN [kind |-> "ok", sensorId |-> sid.val, groupId |-> zid.val,
                   co2Value |-> co2.val, timestamp |-> 0]
             ELSE [kind |-> "throw", sensorId |-> 0, groupId |-> 0,
                   co2Value |-> 0, timestamp |-> 0]
     ELSE [kind |-> "malformed", sensorId |-> 0, groupId |-> 0,
           co2Value |-> 0, timestamp |-> 0]

\* ------------------------------------------------------------------- state
VARIABLES
  topology,             \* "flat" (iot-connectivity.cc), "hier" or "wide" (iot-hierarchical.cc)
  pc,                   \* main: "run", "stopped" (Run returned), "done", "crashed"
  now,                  \* Simulator::Now() in ticks
  events,               \* pending simulator events [t, kind, id]
  m_running,            \* sensor i -> bool
  m_sendEvent,          \* sensor i -> time of the event it holds, NoEvent if none
  sensorSocket,         \* sensor i -> "new", "open", "closed"
  apSocket,             \* relay z -> "new", "open", "closed" (both sockets)
  m_packetsReceived,    \* relay z -> counter
  m_packetsForwarded,   \* relay z -> counter
  apPc,                 \* relay z -> "idle", "fwd" (inside HandleRead, before the forward)
  apPkt,                \* relay z -> packet held by the running handler
  gwSocket,             \* gateway socket "new", "open", "closed"
  gwPc,                 \* "idle", "proc" (inside HandleRead, before ProcessData)
  gwPkt,                \* packet held by the running gateway handler
  totalPacketsSent,
  totalPacketsReceived,
  totalCO2BySensor,     \* map sensorId -> sum
  packetCountBySensor,  \* map sensorId -> count
  apChan,               \* bag of packets in flight toward the relays
  gwChan,               \* bag of packets in flight toward the gateway
  deliveryRatio,        \* [num, den] computed by main after Run
  emitLog,              \* history: sensor i -> sequence of [t, ok], one per SendCO2Reading
  startedAt,            \* history: sensor i -> time StartApplication ran, NoEvent before
  sendStats,            \* history: [calls, oks] of the sensors' Send calls
  gwStats,              \* history: [arrivals, nonEmpty, decoded, failed, late, foreign] at the gateway
  apRecvLog,            \* history: relay z -> payloads it received
  apFwdStats,           \* history: relay z -> [attempts, fails] of its Send calls, late arrivals
  sentLog,              \* history: [id, t, data] of every sensor Send that succeeded
  decodedLog,           \* history: bag of the readings [sensorId, co2Value] that decoded
  call,                 \* unit specifications: the arguments of the call under study
  result                \* unit specifications: what the call returned

vars == <<topology, pc, now, events, m_running, m_sendEvent, sensorSocket, apSocket,
          m_packetsReceived, m_packetsForwarded, apPc, apPkt, gwSocket, gwPc, gwPkt,
          totalPacketsSent, totalPacketsReceived, totalCO2BySensor, packetCountBySensor,
          apChan, gwChan, deliveryRatio, emitLog, startedAt, sendStats, gwStats,
          apRecvLog, apFwdStats, sentLog, decodedLog, call, result>>

NoEvent == -1
NoPacket == [src |-> "none", id |-> 0, data |-> <<>>]
NoCall == [op |-> "none"]

\* ----------------------------------------------------------- configuration
\* nZones of the run: "flat" has no zones, "hier" is the hierarchical scenario
\* with NZones zones and "wide" the same scenario with NZonesWide zones
NumZones(topo) ==
  IF topo = "flat" THEN 0 ELSE IF topo = "hier" THEN NZones ELSE NZonesWide
NumSensors(topo) == IF topo = "flat" THEN NSensorsFlat ELSE NumZones(topo) * SensorsPerZone
SensorsOf(topo) == 0..(NumSensors(topo) - 1)
ZonesOf(topo) == IF topo = "flat" THEN {} ELSE 0..(NumZones(topo) - 1)
Sensors == SensorsOf(topology)
Zones == ZonesOf(topology)

\* main: per-sensor configuration
ZoneOfSensor(i) == i \div SensorsPerZone
\* faulty variant: every sensor is given the address of the first relay
PeerOfSensor_firstRelay(i) == 0
\* the relay whose address sensor i's socket is connected to
PeerOfSensor(i) == ZoneOfSensor(i)
\* faulty variant: the loop index itself is the sensorId
SensorId_zeroBased(i) == i
\* Setup(..., i + 1, ...)
SensorId(i) == i + 1
GroupId(topo, i) == IF topo = "flat" THEN (i % 3) + 1 ELSE ZoneOfSensor(i) + 1
BaselineCO2(topo, i) ==
  IF topo = "flat" THEN (400 + i * 100) * Scale ELSE (400 + i * 50) * Scale
StartTime(topo, i) == IF topo = "flat" THEN 10 + i * 5 ELSE 10 + i * 2

\* rand->GetValue(-50.0, 50.0): the draws the model enumerates
Variations == {0 - VarMax, 12 * Scale + 3456}

\* events scheduled by the applications' initialisation and by Simulator::Stop
InitialEvents(topo) ==
  {[t |-> 0, kind |-> "gwStart", id |-> 0], [t |-> SimTime, kind |-> "gwStop", id |-> 0],
   [t |-> SimTime, kind |-> "simStop", id |-> 0]}
  \cup {[t |-> 0, kind |-> "apStart", id |-> z] : z \in ZonesOf(topo)}
  \cup {[t |-> SimTime, kind |-> "apStop", id |-> z] : z \in ZonesOf(topo)}
  \cup {[t |-> StartTime(topo, i), kind |-> "sensorStart", id |-> i] : i \in SensorsOf(topo)}
  \cup {[t |-> SimTime, kind |-> "sensorStop", id |-> i] : i \in SensorsOf(topo)}

\* -------------------------------------------------- other hosts on the net
Str_S9 == TagSENSOR \o <<"9">>
Str_CO2 == Comma \o TagCO2 \o <<"4", "0", "0">>
Str_S1 == TagSENSOR \o <<"1">>
Str_NegCO2 == Comma \o TagCO2 \o <<"-", "4", "0", "0">>
ForeignPayloads(topo) ==
  IF topo = "flat"
  THEN {<<>>,
        Str_S9 \o Str_CO2,
        Str_S9 \o Comma \o TagCOMPANY \o <<"x">> \o Str_CO2 \o Comma \o TagTIME \o <<"5">>,
        Str_S9 \o Comma \o TagCOMPANY \o <<"1">> \o Str_CO2 \o Comma \o TagTIME \o <<"5">>,
        Str_S1 \o Comma \o TagCOMPANY \o <<"1">> \o Str_NegCO2 \o Comma \o TagTIME \o <<"5">>}
  ELSE {<<>>,
        Str_S9 \o Str_CO2,
        Str_S9 \o Comma \o TagZONE \o <<"x">> \o Str_CO2,
        Str_S9 \o Comma \o TagZONE \o <<"1">> \o Str_CO2,
        Str_S1 \o Comma \o TagZONE \o <<"1">> \o Str_NegCO2}

\* the datagrams that hosts other than the sensors address to the gateway's
\* port during the run; when each arrives is left open
RECURSIVE BagOfSeq(_)
BagOfSeq(q) ==
  IF q = <<>> THEN EmptyBag
  ELSE BagOfSeq(Tail(q)) (+) SetToBag({[src |-> "foreign", id |-> 0, data |-> q[1]]})

ForeignLoads(topo) ==
  {BagOfSeq(q) : q \in UNION {[1..n -> ForeignPayloads(topo)] : n \in 0..MaxForeign}}

\* the applications and globals as constructed, nothing scheduled yet
AppsIdle ==
  /\ pc = "run"
  /\ now = 0
  /\ m_running = [i \in Sensors |-> FALSE]
  /\ m_sendEvent = [i \in Sensors |-> NoEvent]
  /\ sensorSocket = [i \in Sensors |-> "new"]
  /\ apSocket = [z \in Zones |-> "new"]
  /\ m_packetsReceived = [z \in Zones |-> 0]
  /\ m_packetsForwarded = [z \in Zones |-> 0]
  /\ apPc = [z \in Zones |-> "idle"]
  /\ apPkt = [z \in Zones |-> NoPacket]
  /\ gwSocket = "new"
  /\ gwPc = "idle"
  /\ gwPkt = NoPacket
  /\ totalPacketsSent = 0
  /\ totalPacketsReceived = 0
  /\ totalCO2BySensor = <<>>
  /\ packetCountBySensor = <<>>
  /\ apChan = EmptyBag
  /\ deliveryRatio = [num |-> 0, den |-> 1]
  /\ emitLog = [i \in Sensors |-> <<>>]
  /\ startedAt = [i \in Sensors |-> NoEvent]
  /\ sendStats = [calls |-> 0, oks |-> 0]
  /\ gwStats = [arrivals |-> 0, nonEmpty |-> 0, decoded |-> 0, failed |-> 0, late |-> 0,
                foreign |-> 0]
  /\ apRecvLog = [z \in Zones |-> {}]
  /\ apFwdStats = [z \in Zones |-> [attempts |-> 0, fails |-> 0, late |-> 0]]
  /\ sentLog = {}
  /\ decodedLog = EmptyBag

\* the applications and globals as main leaves them before Simulator::Run
AppsInit ==
  /\ events = InitialEvents(topology)
  /\ AppsIdle

Init ==
  /\ topology \in {"flat", "hier"}
  /\ AppsInit
  /\ gwChan \in ForeignLoads(topology)
  /\ call = NoCall
  /\ result = NoCall

\* ------------------------------------------------------------------ helpers
Busy == gwPc # "idle" \/ \E z \in Zones : apPc[z] # "idle"
CanRun == pc = "run" /\ ~Busy

MinTime(evs) == CHOOSE t \in {e.t : e \in evs} : \A e \in evs : t <= e.t

Put(chan, p) == chan (+) SetToBag({p})
Take(chan, p) == chan (-) SetToBag({p})

\* std::map operator[] followed by += : a missing key starts from 0
MapAdd(m, k, v) ==
  [x \in (DOMAIN m) \cup {k} |-> IF x = k THEN (IF k \in DOMAIN m THEN m[k] ELSE 0) + v ELSE m[x]]

\* std::map operator[] as a read: a missing key is inserted with 0
MapTouch(m, keys) == [x \in (DOMAIN m) \cup keys |-> IF x \in DOMAIN m THEN m[x] ELSE 0]

\* EventId::IsPending on the sensor's m_sendEvent
IsPending(i) == [t |-> m_sendEvent[i], kind |-> "send", id |-> i] \in events

\* faulty variant: a socket that was closed still hands arrivals to its callback
Listening_afterClose(sock) == sock \in {"open", "closed"}

\* a socket receives between Bind with SetRecvCallback (StartApplication) and
\* Close (StopApplication)
Listening(sock) == sock = "open"

\* ------------------------------------------------------------- SensorAgent
\* faulty variant: the second if (co2Value > 3000.0) is missing
GenerateCO2ValueFlat_noUpperClamp(baseline, variation) ==
  LET co2Value == baseline + variation
  IN IF co2Value < CO2Min THEN CO2Min ELSE co2Value

GenerateCO2ValueFlat(baseline, variation) ==
  LET co2Value == baseline + variation
      low == IF co2Value < CO2Min THEN CO2Min ELSE co2Value
  IN IF low > CO2Max THEN CO2Max ELSE low

\* faulty variant: std::min and std::max exchanged
GenerateCO2ValueHier_swapped(baseline, variation) ==
  Min2(CO2Min, Max2(CO2Max, baseline + variation))

GenerateCO2ValueHier(baseline, variation) ==
  Max2(CO2Min, Min2(CO2Max, baseline + variation))

GenerateCO2Value(topo, i, variation) ==
  IF topo = "flat" THEN GenerateCO2ValueFlat(BaselineCO2(topo, i), variation)
  ELSE GenerateCO2ValueHier(BaselineCO2(topo, i), variation)

\* the payload SendCO2Reading builds
SensorPayload(topo, i, co2Value, t) ==
  IF topo = "flat"
  THEN EncodeFlat(SensorId(i), GroupId(topo, i), co2Value, t * TickMicros)
  ELSE EncodeHier(SensorId(i), GroupId(topo, i), co2Value)

\* faulty variant: the counter moves whether or not Send succeeded
SentAfterSend_always(ok) == totalPacketsSent + 1

\* faulty variant: the increment sits in the else branch
SentAfterSend_onFailure(ok) == IF ok THEN totalPacketsSent ELSE totalPacketsSent + 1

\* if (m_socket->Send(packet) > 0) totalPacketsSent++
SentAfterSend(ok) == IF ok THEN totalPacketsSent + 1 ELSE totalPacketsSent

\* faulty variant: the next reading is scheduled two intervals ahead
ScheduleNext_twoIntervals(i, running, ok, evs) ==
  IF running THEN evs \cup {[t |-> now' + 2 * Interval, kind |-> "send", id |-> i]} ELSE evs

\* faulty variant: the next reading is scheduled only after a successful Send
ScheduleNext_ifSent(i, running, ok, evs) ==
  IF running /\ ok THEN evs \cup {[t |-> now' + Interval, kind |-> "send", id |-> i]} ELSE evs

\* faulty variant: the reading is not rescheduled at all
ScheduleNext_oneShot(i, running, ok, evs) == evs

\* faulty variant: the reading is scheduled twice, one and two intervals ahead
ScheduleNext_twoEvents(i, running, ok, evs) ==
  IF running
  THEN evs \cup {[t |-> now' + Interval, kind |-> "send", id |-> i],
                 [t |-> now' + 2 * Interval, kind |-> "send", id |-> i]}
  ELSE evs

\* if (m_running) m_sendEvent = Simulator::Schedule(m_interval, ...)
ScheduleNext(i, running, ok, evs) ==
  IF running THEN evs \cup {[t |-> now' + Interval, kind |-> "send", id |-> i]} ELSE evs

HandleAfterSend(i, running, ok) ==
  IF running THEN now' + Interval ELSE m_sendEvent[i]

\* SendCO2Reading of sensor i; running is m_running as the call sees it, evs the
\* pending events without the one being run, ok the outcome of Send
SendCO2Reading(i, running, variation, ok, evs) ==
  LET co2Value == GenerateCO2Value(topology, i, variation)
      data == SensorPayload(topology, i, co2Value, now')
  IN /\ IF ok
        THEN IF topology = "flat"
             THEN /\ gwChan' = Put(gwChan, [src |-> "sensor", id |-> i, data |-> data])
                  /\ UNCHANGED apChan
             ELSE /\ apChan' = Put(apChan, [src |-> "sensor", id |-> i, data |-> data])
                  /\ UNCHANGED gwChan
        ELSE UNCHANGED <<apChan, gwChan>>
     /\ totalPacketsSent' = SentAfterSend(ok)
     /\ events' = ScheduleNext(i, running, ok, evs)
     /\ m_sendEvent' = [m_sendEvent EXCEPT ![i] = HandleAfterSend(i, running, ok)]
     /\ emitLog' = [emitLog EXCEPT ![i] = Append(@, [t |-> now', ok |-> ok])]
     /\ sendStats' = [calls |-> sendStats.calls + 1,
                      oks |-> sendStats.oks + (IF ok THEN 1 ELSE 0)]
     /\ sentLog' = IF ok THEN sentLog \cup {[id |-> i, t |-> now', data |-> data]} ELSE sentLog

\* Socket::Send on an open, connected UDP socket may succeed or fail; on a
\* socket that was closed it fails
SendOutcomes(sock) == IF sock = "open" THEN BOOLEAN ELSE {FALSE}

SensorStart(e) ==
  /\ e.kind = "sensorStart"
  /\ now' = e.t
  /\ m_running' = [m_running EXCEPT ![e.id] = TRUE]
  /\ sensorSocket' = [sensorSocket EXCEPT ![e.id] = IF @ = "new" THEN "open" ELSE @]
  /\ startedAt' = [startedAt EXCEPT ![e.id] = e.t]
  /\ \E variation \in Variations, ok \in SendOutcomes(sensorSocket'[e.id]) :
       SendCO2Reading(e.id, TRUE, variation, ok, events \ {e})
  /\ UNCHANGED <<call, result, topology, decodedLog, pc, apSocket, m_packetsReceived, m_packetsForwarded, apPc, apPkt,
                 gwSocket, gwPc, gwPkt, totalPacketsReceived, totalCO2BySensor,
                 packetCountBySensor, deliveryRatio, gwStats, apRecvLog, apFwdStats>>

SensorSend(e) ==
  /\ e.kind = "send"
  /\ now' = e.t
  /\ \E variation \in Variations, ok \in SendOutcomes(sensorSocket[e.id]) :
       SendCO2Reading(e.id, m_running[e.id], variation, ok, events \ {e})
  /\ UNCHANGED <<call, result, topology, decodedLog, pc, m_running, sensorSocket, startedAt, apSocket,
                 m_packetsReceived, m_packetsForwarded, apPc, apPkt,
                 gwSocket, gwPc, gwPkt, totalPacketsReceived, totalCO2BySensor,
                 packetCountBySensor, deliveryRatio, gwStats, apRecvLog, apFwdStats>>

\* faulty variant: Stop flips the flag instead of clearing it
RunningAfterStop_toggle(running) == ~running

\* m_running = false
RunningAfterStop(running) == FALSE

\* faulty variant: Stop leaves the scheduled reading in the event list
EventsAfterStop_noCancel(i, evs) == evs

\* if (m_sendEvent.IsPending()) Simulator::Cancel(m_sendEvent)
EventsAfterStop(i, evs) == evs \ {[t |-> m_sendEvent[i], kind |-> "send", id |-> i]}

\* Socket::Close on a socket of any state
SocketAfterClose(sock) == "closed"

\* faulty variant: closing the socket of sender (src, id) also discards the
\* packets of that sender which are still in flight
InFlightAfterClose_flush(chan, src, id) ==
  LET kept == {p \in BagToSet(chan) : ~(p.src = src /\ p.id = id)}
  IN [p \in kept |-> chan[p]]

\* the packets in flight after the sender (src, id) closed its socket: Close
\* does not reach what was handed to the stack before
InFlightAfterClose(chan, src, id) == chan

SensorStop(e) ==
  /\ e.kind = "sensorStop"
  /\ now' = e.t
  /\ m_running' = [m_running EXCEPT ![e.id] = RunningAfterStop(@)]
  /\ events' = EventsAfterStop(e.id, events \ {e})
  /\ sensorSocket' = [sensorSocket EXCEPT ![e.id] = SocketAfterClose(@)]
  /\ apChan' = InFlightAfterClose(apChan, "sensor", e.id)
  /\ gwChan' = InFlightAfterClose(gwChan, "sensor", e.id)
  /\ UNCHANGED <<call, result, topology, decodedLog, pc, m_sendEvent, startedAt, apSocket,
                 m_packetsReceived, m_packetsForwarded, apPc, apPkt,
                 gwSocket, gwPc, gwPkt, totalPacketsSent, totalPacketsReceived,
                 totalCO2BySensor, packetCountBySensor, deliveryRatio,
                 emitLog, sendStats, gwStats, apRecvLog, apFwdStats, sentLog>>

\* --------------------------------------------------------------- ZoneRelay
ApStart(e) ==
  /\ e.kind = "apStart"
  /\ now' = e.t
  /\ events' = events \ {e}
  /\ apSocket' = [apSocket EXCEPT ![e.id] = IF @ = "new" THEN "open" ELSE @]
  /\ UNCHANGED <<call, result, topology, decodedLog, pc, m_running, m_sendEvent, sensorSocket, m_packetsReceived,
                 m_packetsForwarded, apPc, apPkt, gwSocket, gwPc, gwPkt, totalPacketsSent,
                 totalPacketsReceived, totalCO2BySensor, packetCountBySensor, apChan,
                 gwChan, deliveryRatio, emitLog, startedAt, sendStats, gwStats,
                 apRecvLog, apFwdStats, sentLog>>

ApStop(e) ==
  /\ e.kind = "apStop"
  /\ now' = e.t
  /\ events' = events \ {e}
  /\ apSocket' = [apSocket EXCEPT ![e.id] = SocketAfterClose(@)]
  /\ gwChan' = InFlightAfterClose(gwChan, "ap", e.id)
  /\ UNCHANGED <<call, result, topology, decodedLog, pc, m_running, m_sendEvent, sensorSocket, m_packetsReceived,
                 m_packetsForwarded, apPc, apPkt, gwSocket, gwPc, gwPkt, totalPacketsSent,
                 totalPacketsReceived, totalCO2BySensor, packetCountBySensor, apChan,
                 deliveryRatio, emitLog, startedAt, sendStats, gwStats,
                 apRecvLog, apFwdStats, sentLog>>

\* faulty variant: the relay forgets to count the packet it received
ReceivedAfterRead_noCount(z) == m_packetsReceived[z]

\* m_packetsReceived++
ReceivedAfterRead(z) == m_packetsReceived[z] + 1

\* LocalAPApplication::HandleRead up to the call of ForwardToGateway, for the
\* packet p that RecvFrom returns
ApHandleRead(z, p) ==
  /\ CanRun
  /\ Listening(apSocket[z])
  /\ BagIn(p, apChan)
  /\ PeerOfSensor(p.id) = z
  /\ apChan' = Take(apChan, p)
  /\ IF Len(p.data) > 0
     THEN /\ m_packetsReceived' = [m_packetsReceived EXCEPT ![z] = ReceivedAfterRead(z)]
          /\ apPc' = [apPc EXCEPT ![z] = "fwd"]
          /\ apPkt' = [apPkt EXCEPT ![z] = p]
          /\ apRecvLog' = [apRecvLog EXCEPT ![z] = @ \cup {p.data}]
     ELSE UNCHANGED <<m_packetsReceived, apPc, apPkt, apRecvLog>>
  /\ UNCHANGED <<call, result, topology, decodedLog, pc, now, events, m_running, m_sendEvent, sensorSocket, apSocket,
                 m_packetsForwarded, gwSocket, gwPc, gwPkt, totalPacketsSent,
                 totalPacketsReceived, totalCO2BySensor, packetCountBySensor, gwChan,
                 deliveryRatio, emitLog, startedAt, sendStats, gwStats, apFwdStats,
                 sentLog>>

\* a packet that reaches relay z while its receive socket is not listening:
\* the stack finds no endpoint for the port and discards it
ApNoEndpoint(z, p) ==
  /\ CanRun
  /\ ~Listening(apSocket[z])
  /\ BagIn(p, apChan)
  /\ PeerOfSensor(p.id) = z
  /\ apChan' = Take(apChan, p)
  /\ apFwdStats' = [apFwdStats EXCEPT ![z].late = @ + 1]
  /\ UNCHANGED <<call, result, topology, decodedLog, pc, now, events, m_running, m_sendEvent,
                 sensorSocket, apSocket, m_packetsReceived, m_packetsForwarded, apPc, apPkt,
                 gwSocket, gwPc, gwPkt, totalPacketsSent, totalPacketsReceived,
                 totalCO2BySensor, packetCountBySensor, gwChan, deliveryRatio, emitLog,
                 startedAt, sendStats, gwStats, apRecvLog, sentLog>>

\* faulty variant: the relay appends its zone to the payload before forwarding
ForwardedData_withZone(z) == apPkt[z].data \o Comma \o TagZONE \o UIntToStr(z + 1)

\* the payload the relay hands to its forward socket
ForwardedData(z) == apPkt[z].data

\* if (m_forwardSocket->Send(packet) > 0) m_packetsForwarded++
ForwardedAfterSend(z, ok) == IF ok THEN m_packetsForwarded[z] + 1 ELSE m_packetsForwarded[z]

\* faulty variant: a failed forward is retried once, and the retry goes through
ForwardAttempts_retry(z, ok) ==
  [attempts |-> IF ok THEN 1 ELSE 2, fails |-> IF ok THEN 0 ELSE 1, sent |-> TRUE]

\* faulty variant: the packet goes out although Send reported a failure
ForwardAttempts_sendAnyway(z, ok) ==
  [attempts |-> 1, fails |-> IF ok THEN 0 ELSE 1, sent |-> TRUE]

\* the Send calls ForwardToGateway makes for one packet: [attempts, fails, sent]
ForwardAttempts(z, ok) ==
  [attempts |-> 1, fails |-> IF ok THEN 0 ELSE 1, sent |-> ok]

\* LocalAPApplication::ForwardToGateway, which ends the handler
ApForwardToGateway(z, ok) ==
  /\ pc = "run"
  /\ apPc[z] = "fwd"
  /\ LET a == ForwardAttempts(z, ok)
     IN /\ gwChan' = IF a.sent
                     THEN Put(gwChan, [src |-> "ap", id |-> z, data |-> ForwardedData(z)])
                     ELSE gwChan
        /\ m_packetsForwarded' = [m_packetsForwarded EXCEPT ![z] = ForwardedAfterSend(z, a.sent)]
        /\ apFwdStats' = [apFwdStats EXCEPT ![z].attempts = @ + a.attempts,
                                            ![z].fails = @ + a.fails]
  /\ apPc' = [apPc EXCEPT ![z] = "idle"]
  /\ apPkt' = [apPkt EXCEPT ![z] = NoPacket]
  /\ UNCHANGED <<call, result, topology, decodedLog, pc, now, events, m_running, m_sendEvent, sensorSocket, apSocket,
                 m_packetsReceived, gwSocket, gwPc, gwPkt, totalPacketsSent,
                 totalPacketsReceived, totalCO2BySensor, packetCountBySensor, apChan,
                 deliveryRatio, emitLog, startedAt, sendStats, gwStats, apRecvLog,
                 sentLog>>

\* -------------------------------------------------------- CentralCollector
GwStart(e) ==
  /\ e.kind = "gwStart"
  /\ now' = e.t
  /\ events' = events \ {e}
  /\ gwSocket' = IF gwSocket = "new" THEN "open" ELSE gwSocket
  /\ UNCHANGED <<call, result, topology, decodedLog, pc, m_running, m_sendEvent, sensorSocket, apSocket,
                 m_packetsReceived, m_packetsForwarded, apPc, apPkt, gwPc, gwPkt,
                 totalPacketsSent, totalPacketsReceived, totalCO2BySensor,
                 packetCountBySensor, apChan, gwChan, deliveryRatio, emitLog, startedAt,
                 sendStats, gwStats, apRecvLog, apFwdStats, sentLog>>

\* faulty variant: the loop reads packetCountBySensor[id] for every configured
\* sensor instead of every key of totalCO2BySensor
CountsAfterSummary_allSensors(topo) ==
  IF topo = "flat" THEN MapTouch(packetCountBySensor, {SensorId(i) : i \in SensorsOf(topo)})
  ELSE packetCountBySensor

\* the summary loop of the flat scenario (gateway StopApplication and main):
\* packetCountBySensor[sensorId] is read for every key of totalCO2BySensor
CountsAfterSummary(topo) ==
  IF topo = "flat" THEN MapTouch(packetCountBySensor, DOMAIN totalCO2BySensor)
  ELSE packetCountBySensor

\* StopApplication closes the socket; the flat gateway then logs the summary
GwStop(e) ==
  /\ e.kind = "gwStop"
  /\ now' = e.t
  /\ events' = events \ {e}
  /\ gwSocket' = SocketAfterClose(gwSocket)
  /\ packetCountBySensor' = CountsAfterSummary(topology)
  /\ UNCHANGED <<call, result, topology, decodedLog, pc, m_running, m_sendEvent, sensorSocket, apSocket,
                 m_packetsReceived, m_packetsForwarded, apPc, apPkt, gwPc, gwPkt,
                 totalPacketsSent, totalPacketsReceived, totalCO2BySensor,
                 apChan, gwChan, deliveryRatio, emitLog, startedAt,
                 sendStats, gwStats, apRecvLog, apFwdStats, sentLog>>

\* the parse the gateway of the topology applies
Decode(topo, data) == IF topo = "flat" THEN ParseFlat(data) ELSE ParseHier(data)

\* faulty variant: only packets that decode are counted
ReceivedAfterArrival_ifDecodes(p) ==
  IF Len(p.data) > 0 /\ Decode(topology, p.data).kind = "ok"
  THEN totalPacketsReceived + 1
  ELSE totalPacketsReceived

\* faulty variant: += packet->GetSize() in place of ++
ReceivedAfterArrival_perByte(p) == totalPacketsReceived + Len(p.data)

\* if (packet->GetSize() > 0) totalPacketsReceived++
ReceivedAfterArrival(p) ==
  IF Len(p.data) > 0 THEN totalPacketsReceived + 1 ELSE totalPacketsReceived

\* gateway HandleRead up to the call of ProcessData / ProcessCO2Data, for the
\* packet p that RecvFrom returns
GwHandleRead(p) ==
  /\ CanRun
  /\ Listening(gwSocket)
  /\ BagIn(p, gwChan)
  /\ gwChan' = Take(gwChan, p)
  /\ totalPacketsReceived' = ReceivedAfterArrival(p)
  /\ IF Len(p.data) > 0
     THEN gwPc' = "proc" /\ gwPkt' = p
     ELSE UNCHANGED <<gwPc, gwPkt>>
  /\ gwStats' = [gwStats EXCEPT !.arrivals = @ + 1,
                                !.nonEmpty = @ + (IF Len(p.data) > 0 THEN 1 ELSE 0),
                                !.foreign = @ + (IF p.src = "foreign" THEN 1 ELSE 0)]
  /\ UNCHANGED <<call, result, topology, decodedLog, pc, now, events, m_running, m_sendEvent, sensorSocket, apSocket,
                 m_packetsReceived, m_packetsForwarded, apPc, apPkt, gwSocket,
                 totalPacketsSent, totalCO2BySensor, packetCountBySensor, apChan,
                 deliveryRatio, emitLog, startedAt, sendStats, apRecvLog, apFwdStats,
                 sentLog>>

\* a packet that reaches the gateway's port while its socket is not listening
GwNoEndpoint(p) ==
  /\ CanRun
  /\ ~Listening(gwSocket)
  /\ BagIn(p, gwChan)
  /\ gwChan' = Take(gwChan, p)
  /\ gwStats' = [gwStats EXCEPT !.late = @ + 1,
                                !.foreign = @ + (IF p.src = "foreign" THEN 1 ELSE 0)]
  /\ UNCHANGED <<call, result, topology, decodedLog, pc, now, events, m_running, m_sendEvent,
                 sensorSocket, apSocket, m_packetsReceived, m_packetsForwarded, apPc, apPkt,
                 gwSocket, gwPc, gwPkt, totalPacketsSent, totalPacketsReceived,
                 totalCO2BySensor, packetCountBySensor, apChan, deliveryRatio, emitLog,
                 startedAt, sendStats, apRecvLog, apFwdStats, sentLog>>

\* faulty variant: the update sits outside the if and runs with the defaults
SumAfterProcess_outsideIf(r) == MapAdd(totalCO2BySensor, r.sensorId, r.co2Value)

\* faulty variant: = in place of +=
SumAfterProcess_assign(r) ==
  IF r.kind = "ok"
  THEN [x \in (DOMAIN totalCO2BySensor) \cup {r.sensorId} |->
          IF x = r.sensorId THEN r.co2Value ELSE totalCO2BySensor[x]]
  ELSE totalCO2BySensor

\* totalCO2BySensor[sensorId] += co2Value, inside the if
SumAfterProcess(r) ==
  IF r.kind = "ok" THEN MapAdd(totalCO2BySensor, r.sensorId, r.co2Value) ELSE totalCO2BySensor

\* faulty variant: a sensorId seen for the first time is entered with count 0
CountAfterProcess_fromZero(r) ==
  IF r.kind = "ok"
  THEN IF r.sensorId \in DOMAIN packetCountBySensor
       THEN MapAdd(packetCountBySensor, r.sensorId, 1)
       ELSE MapTouch(packetCountBySensor, {r.sensorId})
  ELSE packetCountBySensor

\* faulty variant: = 1 in place of ++
CountAfterProcess_assign(r) ==
  IF r.kind = "ok"
  THEN [x \in (DOMAIN packetCountBySensor) \cup {r.sensorId} |->
          IF x = r.sensorId THEN 1 ELSE packetCountBySensor[x]]
  ELSE packetCountBySensor

\* packetCountBySensor[sensorId]++, inside the if
CountAfterProcess(r) ==
  IF r.kind = "ok" THEN MapAdd(packetCountBySensor, r.sensorId, 1) ELSE packetCountBySensor

\* ProcessData / ProcessCO2Data on the held packet, which ends the handler; an
\* exception of a std:: conversion is caught nowhere and ends the program
GwProcessData ==
  /\ pc = "run"
  /\ gwPc = "proc"
  /\ LET r == Decode(topology, gwPkt.data)
     IN /\ totalCO2BySensor' = SumAfterProcess(r)
        /\ packetCountBySensor' = CountAfterProcess(r)
        /\ decodedLog' = IF r.kind = "ok"
                          THEN decodedLog (+) SetToBag({[sensorId |-> r.sensorId,
                                                        co2Value |-> r.co2Value]})
                          ELSE decodedLog
        /\ pc' = IF r.kind = "throw" THEN "crashed" ELSE pc
        /\ gwStats' = [gwStats EXCEPT !.decoded = @ + 1,
                                      !.failed = @ + (IF r.kind = "ok" THEN 0 ELSE 1)]
  /\ gwPc' = "idle"
  /\ gwPkt' = NoPacket
  /\ UNCHANGED <<call, result, topology, now, events, m_running, m_sendEvent, sensorSocket, apSocket,
                 m_packetsReceived, m_packetsForwarded, apPc, apPkt, gwSocket,
                 totalPacketsSent, totalPacketsReceived, apChan, gwChan, deliveryRatio,
                 emitLog, startedAt, sendStats, apRecvLog, apFwdStats, sentLog>>

\* -------------------------------------------------------------------- main
\* the event of Simulator::Stop: Simulator::Run returns
SimStop(e) ==
  /\ e.kind = "simStop"
  /\ now' = e.t
  /\ events' = events \ {e}
  /\ pc' = "stopped"
  /\ UNCHANGED <<call, result, topology, decodedLog, m_running, m_sendEvent, sensorSocket, apSocket,
                 m_packetsReceived, m_packetsForwarded, apPc, apPkt, gwSocket, gwPc, gwPkt,
                 totalPacketsSent, totalPacketsReceived, totalCO2BySensor,
                 packetCountBySensor, apChan, gwChan, deliveryRatio, emitLog, startedAt,
                 sendStats, gwStats, apRecvLog, apFwdStats, sentLog>>

\* faulty variant: the division without its guard
ComputeRatio_unguarded(received, sent) == [num |-> received * 100, den |-> sent]

\* (totalPacketsSent > 0) ? (double)totalPacketsReceived / totalPacketsSent * 100.0 : 0.0
\* as the fraction num/den; den = 0 records a division by zero
ComputeRatio(received, sent) ==
  IF sent > 0 THEN [num |-> received * 100, den |-> sent] ELSE [num |-> 0, den |-> 1]

\* the report main prints after Run: the ratio, then for every key of
\* totalCO2BySensor a read of packetCountBySensor[sensorId]
MainReport ==
  /\ pc = "stopped"
  /\ pc' = "done"
  /\ deliveryRatio' = ComputeRatio(totalPacketsReceived, totalPacketsSent)
  /\ packetCountBySensor' = CountsAfterSummary(topology)
  /\ UNCHANGED <<call, result, topology, decodedLog, now, events, m_running, m_sendEvent, sensorSocket, apSocket,
                 m_packetsReceived, m_packetsForwarded, apPc, apPkt, gwSocket, gwPc, gwPkt,
                 totalPacketsSent, totalPacketsReceived, totalCO2BySensor,
                 apChan, gwChan, emitLog, startedAt,
                 sendStats, gwStats, apRecvLog, apFwdStats, sentLog>>

\* ------------------------------------------------------------ specification
\* the simulator runs one of the events with the smallest time stamp
FireEvent(e) ==
  /\ CanRun
  /\ e \in events
  /\ e.t = MinTime(events)
  /\ \/ SensorStart(e)
     \/ SensorSend(e)
     \/ SensorStop(e)
     \/ ApStart(e)
     \/ ApStop(e)
     \/ GwStart(e)
     \/ GwStop(e)
     \/ SimStop(e)

Next ==
  \/ \E e \in events : FireEvent(e)
  \/ \E z \in Zones : \E p \in BagToSet(apChan) : ApHandleRead(z, p)
  \/ \E z \in Zones : \E p \in BagToSet(apChan) : ApNoEndpoint(z, p)
  \/ \E z \in Zones, ok \in BOOLEAN : ApForwardToGateway(z, ok)
  \/ \E p \in BagToSet(gwChan) : GwHandleRead(p)
  \/ \E p \in BagToSet(gwChan) : GwNoEndpoint(p)
  \/ GwProcessData
  \/ MainReport

Spec == Init /\ [][Next]_vars

\* ------------------------------------------------- the codec on its own
\* Encode (the payload SendCO2Reading builds) and Decode (the gateway's parse)
\* applied to readings and payloads beyond those one run of main produces.
\* The applications stay as main set them up; only call and result move.
appVars == <<pc, now, events, m_running, m_sendEvent, sensorSocket, apSocket,
             m_packetsReceived, m_packetsForwarded, apPc, apPkt, gwSocket, gwPc, gwPkt,
             totalPacketsSent, totalPacketsReceived, totalCO2BySensor,
             packetCountBySensor, apChan, gwChan, deliveryRatio, emitLog, startedAt,
             sendStats, gwStats, apRecvLog, apFwdStats, sentLog, decodedLog>>

TagsOf(topo) ==
  IF topo = "flat" THEN <<TagSENSOR, TagCOMPANY, TagCO2, TagTIME>>
  ELSE <<TagSENSOR, TagZONE, TagCO2>>

\* the text put behind every tag of a test payload
FieldTexts == {<<"7">>, <<"4", "1", "2", ".", "3", "4", "6">>, <<"x">>}

RECURSIVE JoinFields(_, _, _)
JoinFields(tags, order, text) ==
  IF order = <<>> THEN <<>>
  ELSE tags[order[1]] \o text
         \o (IF Len(order) > 1 THEN Comma ELSE <<>>)
         \o JoinFields(tags, Tail(order), text)

Ascending(n, present) == SelectSeq([k \in 1..n |-> k], LAMBDA k : k \in present)
Descending(n, present) == SelectSeq([k \in 1..n |-> n + 1 - k], LAMBDA k : k \in present)

\* payloads that carry any subset of the topology's tags, in the order of the
\* wire format or in the reverse order
TestPayloads(topo) ==
  LET tags == TagsOf(topo)
      n == Len(tags)
  IN {JoinFields(tags, Ascending(n, present), text) :
        present \in SUBSET (1..n), text \in FieldTexts}
     \cup {JoinFields(tags, Descending(n, present), text) :
             present \in SUBSET (1..n), text \in FieldTexts}

\* readings: sensorId and groupId are uint32_t, co2Value a double in the
\* clamped range, timestamp the microseconds of Simulator::Now()
TestReadings(topo) ==
  [sensorId : {1, 42},
   groupId : {1, 3},
   co2Value : {CO2Min, 412 * Scale + 3456, 412 * Scale + 3460, 1234 * Scale + 5000, CO2Max},
   timestamp : IF topo = "flat" THEN {0, 1000000, 46500000} ELSE {0}]

Encode(topo, r) ==
  IF topo = "flat" THEN EncodeFlat(r.sensorId, r.groupId, r.co2Value, r.timestamp)
  ELSE EncodeHier(r.sensorId, r.groupId, r.co2Value)

CodecInit ==
  /\ topology \in {"flat", "hier"}
  /\ AppsInit
  /\ gwChan = EmptyBag
  /\ call \in [op : {"decode"}, data : TestPayloads(topology)]
               \cup [op : {"encode"}, reading : TestReadings(topology)]
  /\ result = NoCall

\* the sensor side: the reading becomes a payload
ApplyEncode ==
  /\ call.op = "encode"
  /\ result = NoCall
  /\ result' = [op |-> "payload", data |-> Encode(topology, call.reading)]
  /\ UNCHANGED <<call, topology, appVars>>

\* the gateway side: the payload (given, or just encoded) is parsed
ApplyDecode ==
  /\ \/ call.op = "decode" /\ result = NoCall
     \/ result.op = "payload"
  /\ LET data == IF call.op = "decode" THEN call.data ELSE result.data
     IN result' = [op |-> "decoded", data |-> data, reading |-> Decode(topology, data)]
  /\ UNCHANGED <<call, topology, appVars>>

CodecNext == ApplyEncode \/ ApplyDecode

CodecSpec == CodecInit /\ [][CodecNext]_vars

\* ------------------------------------------ the generator on its own
\* GenerateCO2Value of both scenarios for baselines (Setup's argument) and
\* draws (rand->GetValue(-50.0, 50.0)) beyond those of the default run.
TestBaselines ==
  {0, 250 * Scale, 300 * Scale, 349 * Scale + 9999, 350 * Scale, 400 * Scale,
   1650 * Scale, 2950 * Scale, 2950 * Scale + 1, 3000 * Scale, 3050 * Scale,
   3100 * Scale, 5000 * Scale}

TestVariations ==
  {0 - VarMax, 1 - VarMax, 0, 12 * Scale + 3456, VarMax - 1, VarMax}

ClampInit ==
  /\ topology \in {"flat", "hier"}
  /\ AppsInit
  /\ gwChan = EmptyBag
  /\ call \in [op : {"generate"}, baseline : TestBaselines, variation : TestVariations]
  /\ result = [op |-> "values", flat |-> {}, hier |-> {}]

\* the value the flat scenario's sensor returns
ApplyGenerateFlat ==
  /\ call.op = "generate"
  /\ result.flat = {}
  /\ result' = [result EXCEPT !.flat = {GenerateCO2ValueFlat(call.baseline, call.variation)}]
  /\ UNCHANGED <<call, topology, appVars>>

\* the value the hierarchical scenario's sensor returns
ApplyGenerateHier ==
  /\ call.op = "generate"
  /\ result.hier = {}
  /\ result' = [result EXCEPT !.hier = {GenerateCO2ValueHier(call.baseline, call.variation)}]
  /\ UNCHANGED <<call, topology, appVars>>

ClampNext == ApplyGenerateFlat \/ ApplyGenerateHier

ClampSpec == ClampInit /\ [][ClampNext]_vars

\* --------------------------------------------- the sums in binary64
\* A C++ double (IEEE 754 binary64, round to nearest, ties to even) that is
\* zero or positive and normal: the value is m * 2^e, where m is the 53-bit
\* significand (zero: m empty, e = 0).  A natural number beyond the machine
\* integers is the sequence of its digits in base 2^LimbBits, most
\* significant first, without leading zeros.
MantissaBits == 53
LimbBits == 15
Base == 2^LimbBits

Zeros(k) == [i \in 1..k |-> 0]

\* the number of binary digits of n < 2^30
BitLength(n) == CHOOSE len \in 0..30 : n < 2^len /\ (len = 0 \/ n >= 2^(len - 1))

StripLeading(a) ==
  LET nz == {i \in 1..Len(a) : a[i] # 0}
  IN IF nz = {} THEN <<>>
     ELSE SubSeq(a, CHOOSE i \in nz : \A k \in nz : i <= k, Len(a))

\* n < 2^30 as limbs
NatToLimbs(n) == StripLeading(<<n \div Base, n % Base>>)

BitLen(a) == IF a = <<>> THEN 0 ELSE LimbBits * (Len(a) - 1) + BitLength(a[1])

\* a + b: carry[k] is the carry out of the k lowest limbs
AddLimbs(a, b) ==
  LET n == Max2(Len(a), Len(b))
      x == Zeros(n - Len(a)) \o a
      y == Zeros(n - Len(b)) \o b
      carry[k \in 0..n] ==
        IF k = 0 THEN 0 ELSE (x[n - k + 1] + y[n - k + 1] + carry[k - 1]) \div Base
  IN StripLeading([i \in 1..(n + 1) |->
                     IF i = 1 THEN carry[n]
                     ELSE (x[i - 1] + y[i - 1] + carry[n - i + 1]) % Base])

\* a * c for 0 < c < Base
MulSmall(a, c) ==
  LET n == Len(a)
      carry[k \in 0..n] ==
        IF k = 0 THEN 0 ELSE (a[n - k + 1] * c + carry[k - 1]) \div Base
  IN StripLeading([i \in 1..(n + 1) |->
                     IF i = 1 THEN carry[n]
                     ELSE (a[i - 1] * c + carry[n - i + 1]) % Base])

\* a divided by d, 0 < d <= Base: quotient and remainder; rem[k] is the
\* remainder after the k highest limbs
DivSmall(a, d) ==
  LET n == Len(a)
      rem[k \in 0..n] == IF k = 0 THEN 0 ELSE (rem[k - 1] * Base + a[k]) % d
  IN [q |-> StripLeading([k \in 1..n |-> (rem[k - 1] * Base + a[k]) \div d]),
      r |-> rem[n]]

\* a * 2^k
ShiftLeft(a, k) ==
  IF a = <<>> THEN <<>> ELSE MulSmall(a, 2^(k % LimbBits)) \o Zeros(k \div LimbBits)

\* a divided by 2^k: quotient, and whether a bit that is 1 was dropped
ShiftRight(a, k) ==
  LET w == Min2(k \div LimbBits, Len(a))
      d == DivSmall(SubSeq(a, 1, Len(a) - w), 2^(k % LimbBits))
  IN [q |-> d.q,
      sticky |-> d.r # 0 \/ \E i \in (Len(a) - w + 1)..Len(a) : a[i] # 0]

IsOdd(a) == a # <<>> /\ a[Len(a)] % 2 = 1

DZero == [m |-> <<>>, e |-> 0]

\* the binary64 nearest to (x + fraction) * 2^e, where sticky tells that the
\* fraction, which is below 1, is not zero
RoundToDouble(x, e, sticky) ==
  LET len == BitLen(x)
      s == len - MantissaBits
  IN IF len = 0 THEN DZero
     ELSE IF s <= 0 THEN [m |-> ShiftLeft(x, 0 - s), e |-> e + s]
     ELSE LET withGuard == ShiftRight(x, s - 1)
              keep == ShiftRight(withGuard.q, 1).q
              up == IsOdd(withGuard.q) /\ (sticky \/ withGuard.sticky \/ IsOdd(keep))
              m1 == IF up THEN AddLimbs(keep, <<1>>) ELSE keep
          IN IF BitLen(m1) > MantissaBits
             THEN [m |-> ShiftRight(m1, 1).q, e |-> e + s + 1]
             ELSE [m |-> m1, e |-> e + s]

\* std::stod of digits [. digits] (at most 9 digits, at most 4 of them
\* after the point, value at least 1): the binary64 nearest to the decimal
Stod64(s) ==
  LET ip == LeadingDigits(s)
      rest == SubSeq(s, Len(ip) + 1, Len(s))
      fp == IF rest # <<>> /\ rest[1] = "." THEN LeadingDigits(Tail(rest)) ELSE <<>>
      x == DivSmall(ShiftLeft(NatToLimbs(DigitsVal(ip \o fp)), 4 * LimbBits), Pow10(Len(fp)))
  IN RoundToDouble(x.q, 0 - 4 * LimbBits, x.r # 0)

\* x + y in binary64
DAdd(x, y) ==
  IF x.m = <<>> THEN y
  ELSE IF y.m = <<>> THEN x
  ELSE LET lo == Min2(x.e, y.e)
       IN RoundToDouble(AddLimbs(ShiftLeft(x.m, x.e - lo), ShiftLeft(y.m, y.e - lo)),
                        lo, FALSE)

\* x / n in binary64 for a count 1 <= n < 2^10 (the uint32_t converts exactly)
DDivCount(x, n) ==
  IF x.m = <<>> THEN DZero
  ELSE LET d == DivSmall(ShiftLeft(x.m, LimbBits), n)
       IN RoundToDouble(d.q, x.e - LimbBits, d.r # 0)

\* ----------------------------------------------- the average on its own
\* The gateway's record of one sensorId while it processes n payloads that
\* all carry the same CO2 text, and the average the report computes from it.
TestValues ==
  {<<"3", "5", "0", ".", "1">>, <<"4", "1", "2", ".", "3", "5">>,
   <<"3", "9", "9", ".", "9">>, <<"4", "0", "0">>,
   <<"4", "1", "2", ".", "3", "4", "6">>, <<"1", "2", "3", "4", ".", "5">>,
   <<"3", "0", "0", ".", "0", "0", "4">>, <<"3", "0", "0", "0">>}

AverageInit ==
  /\ topology \in {"flat", "hier"}
  /\ AppsInit
  /\ gwChan = EmptyBag
  /\ call \in [op : {"average"}, text : TestValues, n : 1..MaxReadings]
  /\ result = [op |-> "record", totalCO2 |-> DZero, packetCount |-> 0]

\* totalCO2BySensor[sensorId] += co2Value; packetCountBySensor[sensorId]++
AddReading ==
  /\ call.op = "average"
  /\ result.op = "record"
  /\ result.packetCount < call.n
  /\ result' = [result EXCEPT !.totalCO2 = DAdd(@, Stod64(call.text)),
                              !.packetCount = @ + 1]
  /\ UNCHANGED <<call, topology, appVars>>

\* double avgCO2 = totalCO2 / packetCount
ReportAverage ==
  /\ call.op = "average"
  /\ result.op = "record"
  /\ result.packetCount = call.n
  /\ result' = [op |-> "report", totalCO2 |-> result.totalCO2,
                packetCount |-> result.packetCount,
                avgCO2 |-> DDivCount(result.totalCO2, result.packetCount)]
  /\ UNCHANGED <<call, topology, appVars>>

AverageNext == AddReading \/ ReportAverage

AverageSpec == AverageInit /\ [][AverageNext]_vars

\* ------------------------------------- the aggregates and arrival order
\* Two runs of the gateway's accounting update on the same packets, taken in
\* the order sent and in another arrival order, with the sums in binary64.
MaxArrivals == 3

ArrivalValues ==
  {<<"4", "0", "0", ".", "1">>, <<"4", "0", "0", ".", "2">>,
   <<"4", "0", "0", ".", "3">>, <<"4", "1", "2", ".", "3", "5">>}

ArrivalIds == {1, 2}

\* totalCO2BySensor[sensorId] += co2Value; packetCountBySensor[sensorId]++
\* on the records rec: sensorId -> [totalCO2, packetCount]
Accumulate(rec, s, v) ==
  [x \in (DOMAIN rec) \cup {s} |->
     IF x = s
     THEN [totalCO2 |-> DAdd(IF s \in DOMAIN rec THEN rec[s].totalCO2 ELSE DZero, v),
           packetCount |-> (IF s \in DOMAIN rec THEN rec[s].packetCount ELSE 0) + 1]
     ELSE rec[x]]

ArrivalInit ==
  /\ topology \in {"flat", "hier"}
  /\ AppsInit
  /\ gwChan = EmptyBag
  /\ call \in [op : {"arrivals"},
               packets : [1..MaxArrivals -> [sensorId : ArrivalIds, text : ArrivalValues]],
               order : Permutations(1..MaxArrivals)]
  /\ result = [op |-> "records", k |-> 0, inOrderSent |-> <<>>, inOtherOrder |-> <<>>]

\* the k-th packet of either order is processed
ProcessArrival ==
  /\ call.op = "arrivals"
  /\ result.k < MaxArrivals
  /\ LET p == call.packets[result.k + 1]
         q == call.packets[call.order[result.k + 1]]
     IN result' = [result EXCEPT
                     !.k = @ + 1,
                     !.inOrderSent = Accumulate(@, p.sensorId, Stod64(p.text)),
                     !.inOtherOrder = Accumulate(@, q.sensorId, Stod64(q.text))]
  /\ UNCHANGED <<call, topology, appVars>>

ArrivalNext == ProcessArrival

ArrivalSpec == ArrivalInit /\ [][ArrivalNext]_vars

\* ------------------------------------------------- the periodic timer
\* The sensors alone under a simulator that runs for as long as events are
\* pending: every sensor is started, the sensors of call.stopped are stopped
\* at call.stopAt and the others never.  A sensor is followed for its first
\* MaxEmissions readings.
MaxEmissions == 3

TimerStops == {70, 110}

TimerEvents(topo, stopped, stopAt) ==
  {[t |-> StartTime(topo, i), kind |-> "sensorStart", id |-> i] : i \in SensorsOf(topo)}
  \cup {[t |-> stopAt, kind |-> "sensorStop", id |-> i] : i \in stopped}

TimerInit ==
  /\ topology \in {"flat", "hier"}
  /\ AppsIdle
  /\ gwChan = EmptyBag
  /\ call \in {[op |-> "timer", stopped |-> S, stopAt |-> T] :
                 S \in SUBSET SensorsOf(topology), T \in TimerStops}
  /\ events = TimerEvents(topology, call.stopped, call.stopAt)
  /\ result = NoCall

\* Simulator::Run takes the next event; an emission past the last one
\* followed is not taken
TimerEvent(e) ==
  /\ CanRun
  /\ e \in events
  /\ e.t = MinTime(events)
  /\ e.kind \in {"sensorStart", "send"} => Len(emitLog[e.id]) < MaxEmissions
  /\ \/ SensorStart(e)
     \/ SensorSend(e)
     \/ SensorStop(e)

TimerNext == \E e \in events : TimerEvent(e)

\* the simulator keeps running events while one is pending
TimerSpec == TimerInit /\ [][TimerNext]_vars /\ WF_vars(TimerNext)

\* ------------------------------------------ a payload of the other format
\* The gateway of one scenario is sent one datagram that a sensor of the
\* other scenario encoded; call keeps the reading it was encoded from.
OtherTopology(topo) == IF topo = "flat" THEN "hier" ELSE "flat"

CrossPayload(topo, r) == Encode(OtherTopology(topo), r)

CrossInit ==
  /\ topology \in {"flat", "hier"}
  /\ AppsIdle
  /\ events = {e \in InitialEvents(topology) : e.kind = "gwStart"}
  /\ call \in [op : {"cross"}, reading : TestReadings(OtherTopology(topology))]
  /\ gwChan = SetToBag({[src |-> "foreign", id |-> 0,
                         data |-> CrossPayload(topology, call.reading)]})
  /\ result = NoCall

CrossStart == \E e \in events : CanRun /\ e.t = MinTime(events) /\ GwStart(e)

CrossNext ==
  \/ CrossStart
  \/ \E p \in BagToSet(gwChan) : GwHandleRead(p)
  \/ \E p \in BagToSet(gwChan) : GwNoEndpoint(p)
  \/ GwProcessData

CrossSpec == CrossInit /\ [][CrossNext]_vars

\* ------------------------------------------------- several zones
\* The hierarchical scenario with NZonesWide zones, followed from the start
\* of the relays through the first reading of every sensor and its way
\* through the relays, up to the time the second readings are due.
ZoneInit ==
  /\ topology = "wide"
  /\ AppsIdle
  /\ events = {e \in InitialEvents(topology) : e.kind \in {"apStart", "sensorStart"}}
  /\ gwChan = EmptyBag
  /\ call = [op |-> "zones"]
  /\ result = NoCall

ZoneEvent(e) ==
  /\ CanRun
  /\ e \in events
  /\ e.t = MinTime(events)
  /\ \/ ApStart(e)
     \/ SensorStart(e)

ZoneNext ==
  \/ \E e \in events : ZoneEvent(e)
  \/ \E z \in Zones : \E p \in BagToSet(apChan) : ApHandleRead(z, p)
  \/ \E z \in Zones, ok \in BOOLEAN : ApForwardToGateway(z, ok)

ZoneSpec == ZoneInit /\ [][ZoneNext]_vars

\* ------------------------------------- from the generator to the average
\* One sensor's readings on their whole way: generated from a baseline and a
\* draw, written into the payload, parsed by the gateway and added to the
\* sensor's record in binary64; then the average of the report.

\* the text the gateway hands to std::stod
CO2Field(topo, data) ==
  LET co2Pos == Find(data, TagCO2)
  IN IF topo = "flat"
     THEN Substr(data, co2Pos + 4, Find(data, TagTIME) - co2Pos - 5)
     ELSE SubstrFrom(data, co2Pos + 4)

BoundInit ==
  /\ topology \in {"flat", "hier"}
  /\ AppsInit
  /\ gwChan = EmptyBag
  /\ call \in [op : {"bound"}, baseline : TestBaselines, n : 1..MaxReadings]
  /\ result = [op |-> "sums", totalCO2 |-> DZero, packetCount |-> 0, co2Value |-> DZero]

\* GenerateCO2Value, SendCO2Reading's payload, the gateway's parse and update
AddGenerated ==
  /\ call.op = "bound"
  /\ result.op = "sums"
  /\ result.packetCount < call.n
  /\ \E variation \in TestVariations :
       LET v == IF topology = "flat"
                THEN GenerateCO2ValueFlat(call.baseline, variation)
                ELSE GenerateCO2ValueHier(call.baseline, variation)
           data == Encode(topology, [sensorId |-> 1, groupId |-> 1, co2Value |-> v,
                                     timestamp |-> 0])
           co2Value == Stod64(CO2Field(topology, data))
       IN result' = [result EXCEPT !.totalCO2 = DAdd(@, co2Value),
                                   !.packetCount = @ + 1,
                                   !.co2Value = co2Value]
  /\ UNCHANGED <<call, topology, appVars>>

\* double avgCO2 = totalCO2 / packetCount
ReportBounded ==
  /\ call.op = "bound"
  /\ result.op = "sums"
  /\ result.packetCount = call.n
  /\ result' = [op |-> "bounded", totalCO2 |-> result.totalCO2,
                packetCount |-> result.packetCount, co2Value |-> result.co2Value,
                avgCO2 |-> DDivCount(result.totalCO2, result.packetCount)]
  /\ UNCHANGED <<call, topology, appVars>>

BoundNext == AddGenerated \/ ReportBounded

BoundSpec == BoundInit /\ [][BoundNext]_vars

\* --------------------------------------------- the gateway's buffer
\* Payloads of readings over the whole width of their fields (uint32_t ids,
\* uint64_t timestamp; numbers beyond the machine integers are limbs) and
\* the gateway's copy of such a payload into its buffer.
BufferSize == 1024

\* 2^bits - 1 for a number of bits that is no multiple of LimbBits
AllOnes(bits) == <<2^(bits % LimbBits) - 1>> \o [i \in 1..(bits \div LimbBits) |-> Base - 1]

\* operator<< of an unsigned integer given as limbs
RECURSIVE WideToStr(_)
WideToStr(a) ==
  IF Len(a) <= 1 THEN UIntToStr(IF a = <<>> THEN 0 ELSE a[1])
  ELSE LET d == DivSmall(a, 10)
       IN (IF d.q = <<>> THEN <<>> ELSE WideToStr(d.q)) \o <<DigitChars[d.r + 1]>>

WideReadings(topo) ==
  [sensorId : {<<1>>, NatToLimbs(1000000), AllOnes(32)},
   groupId : {<<1>>, NatToLimbs(1000000), AllOnes(32)},
   co2Value : {CO2Min, 412 * Scale + 3456, 2999 * Scale + 9900, 2999 * Scale + 9999, CO2Max},
   timestamp : IF topo = "flat" THEN {<<>>, NatToLimbs(46500000), AllOnes(64)} ELSE {<<>>}]

\* faulty variant: Create<Packet>(1024), a packet of a fixed size
PacketSize_fixed(data) == 1024

\* Create<Packet>((uint8_t*)data.c_str(), data.length())
PacketSize(data) == Len(data)

WidthInit ==
  /\ topology \in {"flat", "hier"}
  /\ AppsInit
  /\ gwChan = EmptyBag
  /\ call \in [op : {"width"}, reading : WideReadings(topology)]
  /\ result = NoCall

\* SendCO2Reading: the payload and the packet made of it
ApplyEncodeWide ==
  /\ call.op = "width"
  /\ result = NoCall
  /\ LET r == call.reading
         data == IF topology = "flat"
                 THEN PayloadFlat(WideToStr(r.sensorId), WideToStr(r.groupId),
                                  DoubleToStr(r.co2Value), WideToStr(r.timestamp))
                 ELSE PayloadHier(WideToStr(r.sensorId), WideToStr(r.groupId),
                                  DoubleToStr(r.co2Value))
     IN result' = [op |-> "packet", data |-> data, size |-> PacketSize(data)]
  /\ UNCHANGED <<call, topology, appVars>>

\* packet->CopyData(buffer, packet->GetSize()); buffer[packet->GetSize()] = 0:
\* the indexes of the buffer that are written
ApplyCopyData ==
  /\ result.op = "packet"
  /\ result' = [op |-> "copied", data |-> result.data, size |-> result.size,
                written |-> 0..result.size]
  /\ UNCHANGED <<call, topology, appVars>>

WidthNext == ApplyEncodeWide \/ ApplyCopyData

WidthSpec == WidthInit /\ [][WidthNext]_vars

\* ------------------------------------------------------------------ claims
KeyValue(m, k) == IF k \in DOMAIN m THEN m[k] ELSE 0

OkEmissions(i) == Cardinality({k \in 1..Len(emitLog[i]) : emitLog[i][k].ok})

RECURSIVE SumOkEmissions(_)
SumOkEmissions(S) ==
  IF S = {} THEN 0
  ELSE LET i == CHOOSE x \in S : TRUE IN OkEmissions(i) + SumOkEmissions(S \ {i})

C2_FailedDecodeKeepsAggregates ==
  [][(gwPc = "proc" /\ Decode(topology, gwPkt.data).kind # "ok")
       => /\ totalPacketsReceived = gwStats.decoded + 1
          /\ totalPacketsReceived' = totalPacketsReceived
          /\ totalCO2BySensor' = totalCO2BySensor
          /\ packetCountBySensor' = packetCountBySensor]_vars

C2_Witness ==
  /\ gwStats.failed >= 1
  /\ gwPc = "idle"
  /\ totalPacketsReceived >= 2
  /\ DOMAIN totalCO2BySensor # {}

C4_DeliveryRatio ==
  pc = "done" =>
    /\ deliveryRatio.den # 0
    /\ totalPacketsSent > 0 =>
         deliveryRatio.num * totalPacketsSent
           = totalPacketsReceived * 100 * deliveryRatio.den
    /\ totalPacketsSent = 0 => deliveryRatio.num = 0

C4_Witness == pc = "done" /\ totalPacketsSent = 0 /\ totalPacketsReceived > 0

\* C5: for every relay, in every state (inside the handler and after Stop
\* too), m_packetsForwarded <= m_packetsReceived.
C5_ForwardedAtMostReceived ==
  \A z \in Zones : m_packetsForwarded[z] <= m_packetsReceived[z]

C5_Witness ==
  \E z \in Zones :
    /\ apPc[z] = "fwd"
    /\ m_packetsForwarded[z] >= 1
    /\ m_packetsReceived[z] = m_packetsForwarded[z] + 1

\* C6: every payload a relay has put on the channel toward the gateway is
\* equal, byte for byte, to a payload that relay received, which a sensor
\* encoded and sent.
RelayPackets == {p \in BagToSet(gwChan) \cup {gwPkt} : p.src = "ap"}

C7_OneForwardAttemptPerPacket ==
  \A z \in Zones :
    /\ apPc[z] = "idle" =>
         /\ apFwdStats[z].attempts = m_packetsReceived[z]
         /\ m_packetsReceived[z] - m_packetsForwarded[z] = apFwdStats[z].fails
    /\ apPc[z] = "fwd" =>
         /\ apFwdStats[z].attempts = m_packetsReceived[z] - 1
         /\ apPkt[z] # NoPacket

C7_Witness ==
  \E z \in Zones :
    /\ apPc[z] = "idle"
    /\ apFwdStats[z].fails >= 1
    /\ m_packetsForwarded[z] >= 1

\* C8: totalPacketsSent moves by one exactly when a sensor's Send succeeds:
\* it always equals the number of successful Send calls of all sensors, each
\* reading being sent at most once.
C8_SentCountsSuccessfulSends ==
  /\ totalPacketsSent = sendStats.oks
  /\ totalPacketsSent = SumOkEmissions(Sensors)
  /\ totalPacketsSent = Cardinality(sentLog)

C8_Witness == sendStats.oks >= 1 /\ sendStats.calls > sendStats.oks

\* C9: a started sensor emits first at its start time, and while it runs its
\* k-th emission (k = 0, 1, ...) is at start time + k * Interval: none in
\* between and none missed, the next one being due one Interval after the last.
C9_PeriodicEmission ==
  \A i \in Sensors :
    startedAt[i] # NoEvent =>
      /\ startedAt[i] = StartTime(topology, i)
      /\ Len(emitLog[i]) >= 1
      /\ \A k \in 1..Len(emitLog[i]) : emitLog[i][k].t = startedAt[i] + (k - 1) * Interval
      /\ (m_running[i] /\ pc = "run") => now <= startedAt[i] + Len(emitLog[i]) * Interval
      /\ m_running[i] =>
            [t |-> startedAt[i] + Len(emitLog[i]) * Interval, kind |-> "send", id |-> i] \in events

C9_Witness ==
  \E i \in Sensors : m_running[i] /\ Len(emitLog[i]) >= 2

\* C10: while a sensor runs, each emission, whether its Send succeeded or
\* failed, leaves the next emission pending at the emission time + Interval.
C10_RescheduleWhateverTheSend ==
  \A i \in Sensors :
    (m_running[i] /\ emitLog[i] # <<>>) =>
      /\ m_sendEvent[i] = emitLog[i][Len(emitLog[i])].t + Interval
      /\ IsPending(i)

C10_Witness ==
  \E i \in Sensors :
    /\ m_running[i]
    /\ Len(emitLog[i]) >= 2
    /\ ~emitLog[i][1].ok
    /\ IsPending(i)

\* C11: once a sensor's StopApplication has run, that sensor performs no
\* further emission, holds no scheduled emission (the one outstanding at Stop
\* is cancelled and none is added), and none of its Sends is counted in
\* totalPacketsSent any more.
SendEventsOf(i, evs) == {e \in evs : e.kind = "send" /\ e.id = i}

C11_StopCancelsEmission ==
  [][\A i \in Sensors :
       sensorSocket[i] = "closed" =>
         /\ emitLog'[i] = emitLog[i]
         /\ SendEventsOf(i, events) = {}
         /\ SendEventsOf(i, events') = {}
         /\ {q \in sentLog' : q.id = i} = {q \in sentLog : q.id = i}
         /\ totalPacketsSent' # totalPacketsSent =>
              \E j \in Sensors \ {i} : Len(emitLog'[j]) = Len(emitLog[j]) + 1]_vars

C11_Witness ==
  \E i \in Sensors :
    /\ sensorSocket[i] = "closed"
    /\ m_sendEvent[i] > now
    /\ Len(emitLog[i]) >= 2
    /\ pc = "stopped"

\* C12: in every state in which a component has been stopped, running its
\* StopApplication once more would assign what is already there: the
\* sensor's flag, socket and the pending events, the relay's sockets, the
\* gateway's socket and the per-sensor counts its summary reads; the
\* counters and sums are not written by any Stop.
C12_StopIdempotent ==
  /\ \A i \in Sensors :
       sensorSocket[i] = "closed" =>
         /\ RunningAfterStop(m_running[i]) = m_running[i]
         /\ EventsAfterStop(i, events) = events
         /\ SocketAfterClose(sensorSocket[i]) = sensorSocket[i]
         /\ InFlightAfterClose(apChan, "sensor", i) = apChan
         /\ InFlightAfterClose(gwChan, "sensor", i) = gwChan
  /\ \A z \in Zones :
       apSocket[z] = "closed" =>
         /\ SocketAfterClose(apSocket[z]) = apSocket[z]
         /\ InFlightAfterClose(gwChan, "ap", z) = gwChan
  /\ gwSocket = "closed" =>
       /\ SocketAfterClose(gwSocket) = gwSocket
       /\ CountsAfterSummary(topology) = packetCountBySensor

C12_Witness ==
  /\ gwSocket = "closed"
  /\ \A i \in Sensors : sensorSocket[i] = "closed"
  /\ \A z \in Zones : apSocket[z] = "closed"
  /\ DOMAIN totalCO2BySensor # {}
  /\ BagToSet(gwChan) # {}

\* C13: the step in which a sensor or a relay stops leaves every packet in
\* flight where it is (both channels are unchanged), so that what the sender
\* sent before can still reach, and be counted by, a component that runs.
C13_StopKeepsPacketsInFlight ==
  [][(\/ \E i \in Sensors : sensorSocket[i] # "closed" /\ sensorSocket'[i] = "closed"
      \/ \E z \in Zones : apSocket[z] # "closed" /\ apSocket'[z] = "closed")
       => apChan' = apChan /\ gwChan' = gwChan]_vars

C13_Witness ==
  /\ gwPc = "proc"
  /\ \/ gwPkt.src = "sensor" /\ topology = "flat" /\ sensorSocket[gwPkt.id] = "closed"
     \/ gwPkt.src = "ap" /\ apSocket[gwPkt.id] = "closed"
  /\ totalPacketsReceived >= 1

\* C14: a packet that arrives at the gateway after its StopApplication
\* changes neither totalPacketsReceived nor any per-sensor sum or count (from
\* the stop on the maps are only read); a packet that arrives at a stopped
\* relay changes neither of its counters and nothing is forwarded for it.
NothingAddedFrom(before, after, src, id) ==
  \A p \in BagToSet(after) :
    (p.src = src /\ p.id = id) => CopiesIn(p, after) <= CopiesIn(p, before)

C14_StoppedComponentIgnoresArrivals ==
  [][/\ gwSocket = "closed" =>
          /\ totalPacketsReceived' = totalPacketsReceived
          /\ totalCO2BySensor' = totalCO2BySensor
          /\ packetCountBySensor' = packetCountBySensor
          /\ gwPc' = "idle"
     /\ \A z \in Zones :
          apSocket[z] = "closed" =>
            /\ m_packetsReceived'[z] = m_packetsReceived[z]
            /\ m_packetsForwarded'[z] = m_packetsForwarded[z]
            /\ apPc'[z] = "idle"
            /\ NothingAddedFrom(gwChan, gwChan', "ap", z)]_vars

C14_Witness ==
  /\ gwStats.late >= 1
  /\ gwSocket = "closed"
  /\ \E z \in Zones : apFwdStats[z].late >= 1 /\ apSocket[z] = "closed"
  /\ totalPacketsReceived >= 1

\* C15: the decode of a payload in which at least one of the topology's
\* required tags does not occur yields the malformed outcome, whatever the
\* other tags and the field texts are.
Contains(data, pat) ==
  \E k \in 1..(Len(data) - Len(pat) + 1) : SubSeq(data, k, k + Len(pat) - 1) = pat

LacksATag(topo, data) == \E k \in 1..Len(TagsOf(topo)) : ~Contains(data, TagsOf(topo)[k])

C15_MissingTagIsMalformed ==
  (result.op = "decoded" /\ LacksATag(topology, result.data))
    => result.reading.kind = "malformed"

C15_Witness ==
  /\ result.op = "decoded"
  /\ topology = "flat"
  /\ ~Contains(result.data, TagTIME)
  /\ Contains(result.data, TagSENSOR) /\ Contains(result.data, TagCOMPANY)
  /\ Contains(result.data, TagCO2)
  /\ result.reading.kind = "malformed"

\* C16 (as stated): while the gateway processes a payload that has every
\* required tag and a field that fails numeric parsing, the program keeps
\* running, the packet stays counted and no per-sensor record changes.
C16_NumericFailureIsNonFatal ==
  [][(gwPc = "proc" /\ Decode(topology, gwPkt.data).kind = "throw")
       => /\ pc' = "run"
          /\ totalPacketsReceived' = totalPacketsReceived
          /\ totalCO2BySensor' = totalCO2BySensor
          /\ packetCountBySensor' = packetCountBySensor]_vars

\* C17 (as stated): the decode of the payload encoded from a reading returns
\* that reading, equal in every field the topology carries.
C17_RoundTrip ==
  (call.op = "encode" /\ result.op = "decoded") =>
    LET r == call.reading
        d == result.reading
    IN /\ d.kind = "ok"
       /\ d.sensorId = r.sensorId
       /\ d.groupId = r.groupId
       /\ d.co2Value = r.co2Value
       /\ topology = "flat" => d.timestamp = r.timestamp

\* C18: for every baseline and every draw in [-50, 50] the generated value
\* is baseline + draw if that lies in [300, 3000], 300 if it is below and
\* 3000 if it is above, and the two scenarios return the same value.
C18_ClampedReading ==
  call.op = "generate" =>
    LET x == call.baseline + call.variation
        expected == IF x < CO2Min THEN CO2Min ELSE IF x > CO2Max THEN CO2Max ELSE x
    IN /\ \A v \in result.flat \cup result.hier :
            v = expected /\ CO2Min <= v /\ v <= CO2Max
       /\ (result.flat # {} /\ result.hier # {}) => result.flat = result.hier

C18_Witness ==
  /\ call.op = "generate"
  /\ call.baseline + call.variation > CO2Max
  /\ result.flat = {CO2Max}
  /\ result.hier = {CO2Max}

\* n * x in binary64
DTimesCount(x, n) == IF x.m = <<>> THEN DZero ELSE RoundToDouble(MulSmall(x.m, n), x.e, FALSE)

\* C19 (as stated): after N >= 1 decoded readings of one sensorId that all
\* carry the value V, the report shows the count N, the total N*V and an
\* average equal to V exactly.
C19_IdenticalReadingsAverage ==
  (call.op = "average" /\ result.op = "report") =>
    LET V == Stod64(call.text)
    IN /\ result.packetCount = call.n
       /\ result.totalCO2 = DTimesCount(V, call.n)
       /\ result.avgCO2 = V

\* C20: in every reachable state each sensorId of the aggregate maps has a
\* count of at least 1, so the count that the summary at shutdown and the
\* final report divide by is never zero.
C20_CountAtLeastOne ==
  /\ \A k \in DOMAIN packetCountBySensor : packetCountBySensor[k] >= 1
  /\ \A k \in DOMAIN totalCO2BySensor :
        k \in DOMAIN CountsAfterSummary(topology) => CountsAfterSummary(topology)[k] >= 1

C20_Witness ==
  /\ topology = "flat"
  /\ pc = "done"
  /\ gwSocket = "closed"
  /\ Cardinality(DOMAIN totalCO2BySensor) >= 2
  /\ \E k \in DOMAIN packetCountBySensor : packetCountBySensor[k] >= 2

FlatRunWithoutLoss ==
  /\ topology = "flat"
  /\ pc \in {"stopped", "done"}
  /\ sendStats.oks = sendStats.calls
  /\ gwChan = EmptyBag
  /\ gwStats.late = 0
  /\ gwStats.arrivals = totalPacketsSent

\* the count the scenario states for the sensor of index i: start offset
\* 1.0 + 0.5 * i seconds, period 5 seconds, in ticks
ScenarioACount(i) == (SimTime - (10 + 5 * i)) \div 50 + 1

RECURSIVE SumOverRelays(_, _)
SumOverRelays(f, S) ==
  IF S = {} THEN 0
  ELSE LET z == CHOOSE x \in S : TRUE IN f[z] + SumOverRelays(f, S \ {z})

RelayFails == [z \in Zones |-> apFwdStats[z].fails]

\* a run of the hierarchical scenario that has ended, in which one forward
\* of one relay failed and nothing else was lost on the way to the gateway:
\* every forwarded packet has been taken by the listening gateway, and the
\* gateway has seen no packet but those
HierRunWithOneDrop ==
  /\ topology = "hier"
  /\ pc \in {"stopped", "done"}
  /\ SumOverRelays(RelayFails, Zones) = 1
  /\ gwChan = EmptyBag
  /\ gwStats.late = 0
  /\ gwStats.arrivals = SumOverRelays(m_packetsForwarded, Zones)

ReadingsOf(B, s) == {r \in BagToSet(B) : r.sensorId = s}

\* how many readings the set R of B's elements stands for, and their sum
RECURSIVE CountIn(_, _)
CountIn(B, R) ==
  IF R = {} THEN 0
  ELSE LET r == CHOOSE x \in R : TRUE IN CopiesIn(r, B) + CountIn(B, R \ {r})

RECURSIVE SumIn(_, _)
SumIn(B, R) ==
  IF R = {} THEN 0
  ELSE LET r == CHOOSE x \in R : TRUE
       IN CopiesIn(r, B) * r.co2Value + SumIn(B, R \ {r})

\* No update is lost: whatever the order in which packets of the sensors, the
\* relays and other senders arrived, in every reachable state the record of
\* sensorId s holds as count the number of readings of s that decoded and as
\* sum the sum of their values (sums are exact here; binary64 sums follow).
AggregatesOfDecodedLog ==
  LET ids == {r.sensorId : r \in BagToSet(decodedLog)}
  IN /\ DOMAIN packetCountBySensor = ids
     /\ DOMAIN totalCO2BySensor = ids
     /\ \A s \in ids :
          /\ packetCountBySensor[s] = CountIn(decodedLog, ReadingsOf(decodedLog, s))
          /\ totalCO2BySensor[s] = SumIn(decodedLog, ReadingsOf(decodedLog, s))

AggregatesOfDecodedLog_Reached ==
  /\ Cardinality(DOMAIN packetCountBySensor) >= 2
  /\ \E s \in DOMAIN packetCountBySensor :
       /\ packetCountBySensor[s] >= 2
       /\ Cardinality(ReadingsOf(decodedLog, s)) >= 2
  /\ gwStats.failed = 0

\* C24 (as stated): after the same packets have been processed in two
\* arrival orders, each sensorId's record has as count the number of its
\* packets, and the records of the two orders are equal: the aggregates
\* depend on the multiset of packets only.
C24_OrderIndependentAggregates ==
  (call.op = "arrivals" /\ result.k = MaxArrivals) =>
    /\ \A s \in DOMAIN result.inOrderSent :
         result.inOrderSent[s].packetCount =
           Cardinality({i \in 1..MaxArrivals : call.packets[i].sensorId = s})
    /\ result.inOtherOrder = result.inOrderSent

\* C25: the steps that produce the report (the summary of the gateway's
\* StopApplication, and main's report after the run) leave totalPacketsSent,
\* totalPacketsReceived and both per-sensor maps as they were, and once main
\* has reported, producing the report again gives the same ratio and reads
\* the same counts.
C25_ReportHasNoSideEffect ==
  [][((pc = "stopped" /\ pc' = "done") \/ (gwSocket # "closed" /\ gwSocket' = "closed")) =>
       /\ totalPacketsSent' = totalPacketsSent
       /\ totalPacketsReceived' = totalPacketsReceived
       /\ totalCO2BySensor' = totalCO2BySensor
       /\ packetCountBySensor' = packetCountBySensor
       /\ pc' = "done" =>
            /\ ComputeRatio(totalPacketsReceived', totalPacketsSent') = deliveryRatio'
            /\ MapTouch(packetCountBySensor', DOMAIN totalCO2BySensor') = packetCountBySensor']_vars

C25_Witness ==
  /\ topology = "flat"
  /\ pc = "done"
  /\ gwSocket = "closed"
  /\ deliveryRatio.num > 0
  /\ deliveryRatio.num < 100 * deliveryRatio.den
  /\ DOMAIN totalCO2BySensor = {1}

AggregatesUnchanged ==
  /\ totalCO2BySensor' = totalCO2BySensor
  /\ packetCountBySensor' = packetCountBySensor

\* C26: totalPacketsSent changes only in a step in which a sensor's Send
\* succeeded, totalPacketsReceived only in a step of the gateway's HandleRead,
\* and the per-sensor maps only in a step of the gateway's ProcessData; a
\* relay's receive or forward step changes none of them, and a sensor's
\* emission changes neither totalPacketsReceived nor the maps.
C26_OneWriterPerCounter ==
  [][/\ totalPacketsSent' # totalPacketsSent =>
          \E i \in Sensors : emitLog'[i] = Append(emitLog[i], [t |-> now', ok |-> TRUE])
     /\ totalPacketsReceived' # totalPacketsReceived =>
          /\ gwStats'.arrivals = gwStats.arrivals + 1
          /\ emitLog' = emitLog
     /\ ~AggregatesUnchanged => (gwPc = "proc" /\ gwPc' = "idle")
     /\ (m_packetsReceived' # m_packetsReceived \/ m_packetsForwarded' # m_packetsForwarded
         \/ apPc' # apPc \/ apFwdStats' # apFwdStats) =>
          /\ totalPacketsSent' = totalPacketsSent
          /\ totalPacketsReceived' = totalPacketsReceived
          /\ AggregatesUnchanged
     /\ emitLog' # emitLog =>
          /\ totalPacketsReceived' = totalPacketsReceived
          /\ AggregatesUnchanged]_vars

C26_Witness ==
  /\ topology = "hier"
  /\ \E z \in Zones : m_packetsReceived[z] >= 2 /\ m_packetsForwarded[z] >= 1
                      /\ apFwdStats[z].fails >= 1
  /\ totalPacketsSent >= 2
  /\ sendStats.calls > sendStats.oks
  /\ totalPacketsReceived >= 1
  /\ DOMAIN packetCountBySensor # {}

\* only the sensors (and the relays for them) put packets on the transport:
\* no datagram of another sender is in flight or has reached the gateway
ClosedSystem ==
  /\ gwStats.foreign = 0
  /\ \A p \in BagToSet(gwChan) : p.src # "foreign"

\* C27: when the transport carries only what the sensors and relays sent,
\* each packet at most once, then in every reachable state
\* totalPacketsReceived <= sum of m_packetsForwarded <= sum of
\* m_packetsReceived <= totalPacketsSent in the hierarchical scenario and
\* totalPacketsReceived <= totalPacketsSent in the flat one, and the
\* delivery ratio computed from the counters is at most 100.
C27_CountersChain ==
  ClosedSystem =>
    /\ topology = "hier" =>
         /\ totalPacketsReceived <= SumOverRelays(m_packetsForwarded, Zones)
         /\ SumOverRelays(m_packetsForwarded, Zones) <= SumOverRelays(m_packetsReceived, Zones)
         /\ SumOverRelays(m_packetsReceived, Zones) <= totalPacketsSent
    /\ totalPacketsReceived <= totalPacketsSent
    /\ ComputeRatio(totalPacketsReceived, totalPacketsSent).num
         <= 100 * ComputeRatio(totalPacketsReceived, totalPacketsSent).den
    /\ deliveryRatio.num <= 100 * deliveryRatio.den

C27_Witness ==
  /\ ClosedSystem
  /\ topology = "hier"
  /\ pc = "done"
  /\ totalPacketsReceived >= 1
  /\ totalPacketsReceived < SumOverRelays(m_packetsForwarded, Zones)
  /\ SumOverRelays(m_packetsForwarded, Zones) < SumOverRelays(m_packetsReceived, Zones)
  /\ SumOverRelays(m_packetsReceived, Zones) <= totalPacketsSent
  /\ deliveryRatio.num > 0

\* the sum of the per-sensor counts over the sensorIds of S
RECURSIVE SumOfCounts(_)
SumOfCounts(S) ==
  IF S = {} THEN 0
  ELSE LET k == CHOOSE x \in S : TRUE IN packetCountBySensor[k] + SumOfCounts(S \ {k})

C29_OnePendingEmission ==
  \A i \in Sensors :
    /\ Cardinality(SendEventsOf(i, events)) <= 1
    /\ m_running[i] => Cardinality(SendEventsOf(i, events)) = 1
    /\ startedAt[i] = NoEvent => SendEventsOf(i, events) = {}
    /\ sensorSocket[i] = "closed" => SendEventsOf(i, events) = {}

C29_Witness ==
  /\ pc = "run"
  /\ \E i \in Sensors :
       /\ sensorSocket[i] = "closed"
       /\ Len(emitLog[i]) >= 2
       /\ SendEventsOf(i, events) = {}
  /\ \E j \in Sensors :
       /\ m_running[j]
       /\ Cardinality(SendEventsOf(j, events)) = 1

\* the number of readings sensor i has emitted so far (-1: no such sensor)
EmissionsOf(i) == IF i \in Sensors THEN Len(emitLog[i]) ELSE -1

\* C30: a sensor that is never stopped is started and then emits again and
\* again (each of its first MaxEmissions readings is followed by the next),
\* whatever the outcome of its sends; a sensor that is stopped ends up not
\* running, its socket closed, with no emission pending, for ever.
C30_TimerLiveness ==
  /\ \A i \in 0..(NSensorsFlat + NZones * SensorsPerZone) :
       \A k \in 0..(MaxEmissions - 1) :
         (i \notin call.stopped /\ EmissionsOf(i) = k) ~> (EmissionsOf(i) = k + 1)
  /\ <>[](\A i \in Sensors :
            i \in call.stopped =>
              /\ ~m_running[i]
              /\ sensorSocket[i] = "closed"
              /\ SendEventsOf(i, events) = {})

C30_Witness ==
  /\ \E i \in Sensors :
       /\ i \notin call.stopped
       /\ Len(emitLog[i]) = MaxEmissions
       /\ \A k \in 1..MaxEmissions : ~emitLog[i][k].ok
  /\ \E j \in Sensors :
       /\ j \in call.stopped
       /\ Len(emitLog[j]) >= 2
       /\ sensorSocket[j] = "closed"
       /\ SendEventsOf(j, events) = {}

\* C31: a payload that a sensor of the other scenario encoded (SENSOR, ZONE,
\* CO2 at the flat gateway; SENSOR, COMPANY, CO2, TIME at the hierarchical
\* one) decodes as malformed; the gateway that reads it has counted it in
\* totalPacketsReceived, and processing it changes no sum, no count and no
\* key and leaves the program running.
C31_FormatsMutuallyRejected ==
  [][(gwPc = "proc" /\ call.op = "cross"
        /\ gwPkt.data = CrossPayload(topology, call.reading))
       => /\ Decode(topology, gwPkt.data).kind = "malformed"
          /\ totalPacketsReceived = gwStats.decoded + 1
          /\ totalPacketsReceived' = totalPacketsReceived
          /\ totalCO2BySensor' = totalCO2BySensor
          /\ packetCountBySensor' = packetCountBySensor
          /\ pc' = "run"]_vars

C31_Witness ==
  /\ call.op = "cross"
  /\ topology = "hier"
  /\ Contains(CrossPayload(topology, call.reading), TagTIME)
  /\ gwStats.failed = 1
  /\ gwPc = "idle"
  /\ totalPacketsReceived = 1
  /\ DOMAIN totalCO2BySensor = {}

\* C32: in the hierarchical scenario every payload sensor i sends carries
\* SENSOR i + 1 and ZONE floor(i / sensorsPerZone) + 1; every packet relay z
\* (zone id z + 1) has counted carries its zone id; and the counter of relay
\* z is at most the number of successful sends of the sensors of its zone.
SendsOfZone(z) == {s \in sentLog : s.id \div SensorsPerZone = z}

C32_SensorsSendToOwnRelay ==
  topology # "flat" =>
    /\ \A s \in sentLog :
         /\ ParseHier(s.data).kind = "ok"
         /\ ParseHier(s.data).sensorId = s.id + 1
         /\ ParseHier(s.data).groupId = (s.id \div SensorsPerZone) + 1
    /\ \A z \in Zones :
         /\ \A d \in apRecvLog[z] : ParseHier(d).groupId = z + 1
         /\ m_packetsReceived[z] <= Cardinality(SendsOfZone(z))

C32_Witness ==
  /\ topology = "wide"
  /\ \A z \in Zones : m_packetsReceived[z] >= 1
  /\ \E z \in Zones : m_packetsReceived[z] < Cardinality(SendsOfZone(z))
  /\ \E z \in Zones : m_packetsReceived[z] = 2
  /\ \E z \in Zones : \E d \in apRecvLog[z] : ParseHier(d).sensorId = 2 * z + 2

\* C33: the sum map and the count map have the same keys in every state,
\* and as long as no datagram of a host other than the configured sensors
\* has reached the gateway, every key is one of 1..sensorCount.
C33_KeysAreConfiguredSensors ==
  /\ DOMAIN totalCO2BySensor = DOMAIN packetCountBySensor
  /\ gwStats.foreign = 0 => DOMAIN totalCO2BySensor \subseteq 1..NumSensors(topology)

C33_Witness ==
  /\ gwStats.foreign = 0
  /\ gwChan = EmptyBag
  /\ pc = "done"
  /\ DOMAIN totalCO2BySensor = 1..NumSensors(topology)
  /\ DOMAIN packetCountBySensor = 1..NumSensors(topology)

\* a datagram of another host brings a key of its own into both maps
C33_ForeignKey_Reached ==
  /\ 9 \in DOMAIN totalCO2BySensor
  /\ 9 \in DOMAIN packetCountBySensor

\* a <= b for natural numbers given as limbs
LimbsLeq(a, b) ==
  IF Len(a) # Len(b) THEN Len(a) < Len(b)
  ELSE \/ a = b
       \/ \E i \in 1..Len(a) :
            /\ a[i] < b[i]
            /\ \A k \in 1..(i - 1) : a[k] = b[k]

\* the binary64 d (with an exponent that is not positive) against the
\* natural number n
DoubleGeq(d, n) == LimbsLeq(ShiftLeft(NatToLimbs(n), 0 - d.e), d.m)
DoubleLeq(d, n) == LimbsLeq(d.m, ShiftLeft(NatToLimbs(n), 0 - d.e))

\* 300 * count <= d <= 3000 * count
WithinRange(d, count) ==
  /\ d.e <= 0
  /\ DoubleGeq(d, (CO2Min \div Scale) * count)
  /\ DoubleLeq(d, (CO2Max \div Scale) * count)

\* C34: every value of a sensor that the gateway adds to a record lies in
\* [300, 3000]; the record's sum lies between 300 * count and 3000 * count;
\* and the average the report computes lies in [300, 3000] (all in binary64).
C34_EndToEndValueBound ==
  (call.op = "bound" /\ result.packetCount >= 1) =>
    /\ WithinRange(result.co2Value, 1)
    /\ WithinRange(result.totalCO2, result.packetCount)
    /\ result.op = "bounded" => WithinRange(result.avgCO2, 1)

\* three readings of a sensor whose baseline is above the range, the last
\* of them written as "3000", and their average
C34_Witness ==
  /\ call.op = "bound"
  /\ result.op = "bounded"
  /\ call.baseline > CO2Max
  /\ result.packetCount = 3
  /\ result.co2Value = Stod64(<<"3", "0", "0", "0">>)
  /\ result.avgCO2 = Stod64(<<"3", "0", "0", "0">>)

\* values inside the range that differ: the sum lies strictly between the
\* bounds
C34_Inside_Reached ==
  /\ call.op = "bound"
  /\ result.op = "bounded"
  /\ result.packetCount = MaxReadings
  /\ ~DoubleLeq(result.totalCO2, (CO2Min \div Scale) * result.packetCount)
  /\ ~DoubleGeq(result.totalCO2, (CO2Max \div Scale) * result.packetCount)
  /\ result.avgCO2 # result.co2Value

\* the same bound on the records of a run, with the sums as exact decimals
RunValueBound ==
  gwStats.foreign = 0 =>
    \A s \in DOMAIN totalCO2BySensor :
      /\ s \in DOMAIN packetCountBySensor
      /\ CO2Min * packetCountBySensor[s] <= totalCO2BySensor[s]
      /\ totalCO2BySensor[s] <= CO2Max * packetCountBySensor[s]

\* C35: the packet of every payload a sensor can encode is shorter than the
\* gateway's buffer of 1024 bytes, and every index the gateway writes (the
\* copied bytes and the terminator behind them) lies inside the buffer.
C35_PayloadFitsBuffer ==
  /\ result.op \in {"packet", "copied"} => result.size < BufferSize
  /\ result.op = "copied" => result.written \subseteq 0..(BufferSize - 1)

\* the longest payload: both ids 2^32 - 1, a value of 7 characters and the
\* timestamp 2^64 - 1, 74 bytes in all
C35_Witness ==
  /\ result.op = "copied"
  /\ topology = "flat"
  /\ result.data = PayloadFlat(<<"4", "2", "9", "4", "9", "6", "7", "2", "9", "5">>,
                               <<"4", "2", "9", "4", "9", "6", "7", "2", "9", "5">>,
                               <<"4", "1", "2", ".", "3", "4", "6">>,
                               <<"1", "8", "4", "4", "6", "7", "4", "4", "0", "7",
                                 "3", "7", "0", "9", "5", "5", "1", "6", "1", "5">>)
  /\ result.size = 74
  /\ 74 \in result.written

====
